---- MODULE Spec2Model ----
(***************************************************************************)
(* A model of ga4_api.py: the GA4 aggregation and comparison engine and    *)
(* the two HTTP handlers that drive it.                                    *)
(*                                                                         *)
(* Numbers.  Counts (sessions, users, events) are integers.  A rate is an  *)
(* integer number of 1e-5 units (0.60 is 60000) and a duration or a        *)
(* pages-per-session figure an integer number of 1e-3 units, so that the   *)
(* code's round(x, 4) and round(x, 2) are real roundings, to 1e-4 and 1e-2 *)
(* units.  The code computes in binary floating point: a value that lies   *)
(* exactly halfway between two rounded values is rounded up or down        *)
(* depending on the representation error the additions have accumulated,   *)
(* which depends on the order of the additions.  The parameter fp of the   *)
(* rounding operators is that direction.                                   *)
(*                                                                         *)
(* Text.  A string the code takes apart (a URL, a page path) is a sequence *)
(* of one-character strings; every other string is a TLA+ string.          *)
(***************************************************************************)
EXTENDS Integers, Sequences, FiniteSets, TLC

VARIABLES
    pc,              \* where the run is
    rows,            \* the rows the metrics source returns for the page report
    urls,            \* the request's urls
    pages,           \* what get_page_performance returned
    aggregated,      \* what aggregate_basic returned (legacy /analyze path)
    summary,         \* what build_data_summary returned, or the exception it raised
    rows2,           \* the same rows as the source returns them another time
    pages2,          \* what get_page_performance returned for rows2
    summary2,        \* what build_data_summary returned when called a second time
    current_totals,  \* get_site_totals of the current range
    previous_totals, \* get_site_totals of the previous range
    changes,         \* the PeriodComparison of every metric
    source_events,   \* the rows the metrics source returns for the event report
    events,          \* what get_event_data returned
    route,           \* the route of the request: /analyze or /analyze-with-ai
    request_json,    \* what request.get_json() gave the request
    calls,           \* the calls made to the collaborators, in order
    reports,         \* what the metrics source returned, query by query
    collected,       \* the all_data collect_all_data returned
    insights,        \* the ai_insights: what analyze_with_claude returned, sanitised
    images,          \* the charts generate_charts returned
    response         \* the HTTP response

aggVars   == <<rows, urls, pages, aggregated, summary>>
orderVars == <<rows2, pages2, summary2>>
cmpVars   == <<current_totals, previous_totals, changes>>
eventVars == <<source_events, events>>
reqVars   == <<route, request_json, calls, reports, collected, insights, images, response>>

vars == <<pc, aggVars, orderVars, cmpVars, eventVars, reqVars>>

\* Python's None where a value may be missing: the empty sequence; a value v
\* that is there is <<v>>
None == <<>>
Some(v) == <<v>>

---------------------------------------------------------------------------
(* Bounds of the model *)

MaxRows == 3
MaxEvents == 3

---------------------------------------------------------------------------
(* Generic helpers *)

RECURSIVE SumSeq(_)
SumSeq(s) == IF s = <<>> THEN 0 ELSE Head(s) + SumSeq(Tail(s))

SeqsUpTo(S, n) == UNION {[1..k -> S] : k \in 0..n}

Restrict(f, S) == [k \in S |-> f[k]]

\* Python's str(s).startswith(p)
startswith(s, p) == Len(p) <= Len(s) /\ SubSeq(s, 1, Len(p)) = p

\* The least index i >= from with s[i] in chars, Len(s) + 1 when there is none
IndexOf(s, chars, from) ==
    LET hits == {i \in from..Len(s) : s[i] \in chars}
    IN  IF hits = {} THEN Len(s) + 1
        ELSE CHOOSE i \in hits : \A j \in hits : i <= j

\* round(num / den, n) in units of the n-th decimal place, den > 0: the nearest
\* integer to num / den.  num / den is the exact value; where it is a decimal
\* tie, the float Python holds is on one side of it, or on it, and fp says
\* whether round goes up.  The page aggregator computes fp from its floats
\* (float_round_up below); elsewhere a tie may go either way.
round(num, den, fp) ==
    LET q == num \div den
        r == num % den
    IN  IF 2 * r < den THEN q
        ELSE IF 2 * r > den THEN q + 1
        ELSE IF fp THEN q + 1 ELSE q

---------------------------------------------------------------------------
(* Python floats.  A float is an IEEE-754 double: 53 significant bits, and
   every operation gives the double nearest to the exact result, a tie going
   to the even one.  The numbers of a report are far from the limits of the
   exponent, so a double is [m, e], the number m * 2^e, m a natural number of
   at most 53 bits (2^53 after a carry), e any integer.  m is wider than an
   integer of the model checker: it is the sequence of its digits in base
   2^10, the lowest first. *)

Base == 1024

RECURSIVE BigNat(_)
BigNat(n) == IF n = 0 THEN <<>> ELSE <<n % Base>> \o BigNat(n \div Base)

\* a * k + carry, for k and carry below 2^21
RECURSIVE BigTimes(_, _, _)
BigTimes(a, k, carry) ==
    IF a = <<>> THEN BigNat(carry)
    ELSE LET x == a[1] * k + carry
         IN  <<x % Base>> \o BigTimes(Tail(a), k, x \div Base)

RECURSIVE BigPlus(_, _, _)
BigPlus(a, b, carry) ==
    IF a = <<>> /\ b = <<>> THEN BigNat(carry)
    ELSE LET x == (IF a = <<>> THEN 0 ELSE a[1])
                  + (IF b = <<>> THEN 0 ELSE b[1]) + carry
         IN  <<x % Base>> \o BigPlus(IF a = <<>> THEN <<>> ELSE Tail(a),
                                     IF b = <<>> THEN <<>> ELSE Tail(b),
                                     x \div Base)

\* quotient and remainder of a by d, for d below 2^21
RECURSIVE BigDivMod(_, _)
BigDivMod(a, d) ==
    IF a = <<>> THEN [q |-> <<>>, r |-> 0]
    ELSE LET hi == BigDivMod(Tail(a), d)
             x  == hi.r * Base + a[1]
         IN  [q |-> <<x \div d>> \o hi.q, r |-> x % d]

BigShiftLeft(a, k) == BigTimes([i \in 1..(k \div 10) |-> 0] \o a, 2 ^ (k % 10), 0)

BigShiftRight(a, k) ==
    IF k \div 10 >= Len(a) THEN <<>>
    ELSE BigDivMod(SubSeq(a, k \div 10 + 1, Len(a)), 2 ^ (k % 10)).q

\* bit i of a, bit 0 the lowest
Bit(a, i) ==
    IF i \div 10 >= Len(a) THEN 0 ELSE (a[i \div 10 + 1] \div 2 ^ (i % 10)) % 2

BitLength(a) ==
    LET used == {i \in 1..Len(a) : a[i] # 0}
        top  == CHOOSE i \in used : \A j \in used : j <= i
    IN  IF used = {} THEN 0
        ELSE 10 * (top - 1) + (CHOOSE b \in 1..10 : a[top] < 2 ^ b /\ 2 ^ (b - 1) <= a[top])

\* the double nearest to n * 2^e, or to a number strictly between n * 2^e
\* and (n + 1) * 2^e when more is set (n then has more than 54 bits)
NearestDouble(n, e, more) ==
    LET drop == BitLength(n) - 53
        m    == BigShiftRight(n, drop)
        rest == more \/ \E i \in 0..(drop - 2) : Bit(n, i) = 1
        up   == Bit(n, drop - 1) = 1 /\ (rest \/ Bit(n, drop) = 1)
    IN  IF drop <= 0 THEN [m |-> n, e |-> e]
        ELSE [m |-> IF up THEN BigPlus(m, <<1>>, 0) ELSE m, e |-> e + drop]

\* line 194, float(val): the double nearest to the decimal n / scale
float(n, scale) ==
    LET d == BigDivMod(BigShiftLeft(BigNat(n), 80), scale)
    IN  IF n = 0 THEN [m |-> <<>>, e |-> 0] ELSE NearestDouble(d.q, -80, d.r # 0)

\* x * k for a float x and an int k
float_mul(x, k) == NearestDouble(BigTimes(x.m, k, 0), x.e, FALSE)

\* x + y
float_add(x, y) ==
    LET e == IF x.e <= y.e THEN x.e ELSE y.e
    IN  NearestDouble(BigPlus(BigShiftLeft(x.m, x.e - e),
                              BigShiftLeft(y.m, y.e - e), 0), e, FALSE)

\* x / k for a float x and an int k > 0
float_div(x, k) ==
    LET shift == IF BitLength(x.m) >= 80 THEN 0 ELSE 80 - BitLength(x.m)
        d     == BigDivMod(BigShiftLeft(x.m, shift), k)
    IN  IF BitLength(x.m) = 0 THEN x ELSE NearestDouble(d.q, x.e - shift, d.r # 0)

\* round(x, n) of a float x >= 0, units = 10^n: whether the result is above
\* x in units of the n-th decimal place.  round gives the decimal nearest to
\* the double's exact value, a tie going to the even one.
float_round_up(x, units) ==
    LET y == BigTimes(x.m, units, 0)
        k == -x.e
    IN  /\ k > 0
        /\ Bit(y, k - 1) = 1
        /\ \/ \E i \in 0..(k - 2) : Bit(y, i) = 1
           \/ Bit(y, k) = 1

---------------------------------------------------------------------------
(* A Python dict with insertion order: a sequence of [k, v] pairs *)

DictKeys(d) == {d[i].k : i \in 1..Len(d)}

DictGet(d, key, default) ==
    IF key \in DictKeys(d)
    THEN d[CHOOSE i \in 1..Len(d) : d[i].k = key].v
    ELSE default

\* d[key] = value
DictSet(d, key, value) ==
    IF key \in DictKeys(d)
    THEN [i \in 1..Len(d) |-> IF d[i].k = key THEN [k |-> key, v |-> value] ELSE d[i]]
    ELSE Append(d, [k |-> key, v |-> value])

---------------------------------------------------------------------------
(* urlparse(u).path *)

Letters == {"s", "h", "a", "b", "c", "z", "p"}
SchemeChars == Letters \cup {"+", "-", "."}

\* urlsplit: the scheme and its colon removed
AfterScheme(u) ==
    LET i == IndexOf(u, {":"}, 1)
    IN  IF /\ i <= Len(u)
           /\ i > 1
           /\ u[1] \in Letters
           /\ \A j \in 1..(i - 1) : u[j] \in SchemeChars
        THEN SubSeq(u, i + 1, Len(u))
        ELSE u

\* urlsplit: the //netloc removed
AfterNetloc(u) ==
    IF Len(u) >= 2 /\ SubSeq(u, 1, 2) = <<"/", "/">>
    THEN SubSeq(u, IndexOf(u, {"/", "?", "#"}, 3), Len(u))
    ELSE u

UrlPath(u) ==
    LET rest  == AfterNetloc(AfterScheme(u))
        nofrg == SubSeq(rest, 1, IndexOf(rest, {"#"}, 1) - 1)
    IN  SubSeq(nofrg, 1, IndexOf(nofrg, {"?"}, 1) - 1)

---------------------------------------------------------------------------
(* The inputs *)

P_a       == <<"/", "a">>
P_ab      == <<"/", "a", "/", "b">>
P_c       == <<"/", "c">>
P_pricing == <<"/", "p">>

U_a     == <<"s", ":", "/", "/", "h", "/", "a">>
U_z     == <<"s", ":", "/", "/", "h", "/", "z">>
U_cq    == <<"s", ":", "/", "/", "h", "/", "c", "?", "a">>
U_root  == <<"s", ":", "/", "/", "h">>
U_empty == <<>>

UrlLists == {<<>>, <<U_a>>, <<U_z>>, <<U_empty>>, <<U_root>>, <<U_z, U_cq>>}

Row(path, dev, src, med, ch, s, users, new, br, dur, eng, ued, pps, er, ev) ==
    [pagePath |-> path, deviceCategory |-> dev, sessionSource |-> src,
     sessionMedium |-> med, sessionDefaultChannelGroup |-> ch,
     sessions |-> s, totalUsers |-> users, newUsers |-> new,
     bounceRate |-> br, averageSessionDuration |-> dur,
     engagedSessions |-> eng, userEngagementDuration |-> ued,
     screenPageViewsPerSession |-> pps, engagementRate |-> er,
     eventCount |-> ev]

\* /pricing: mobile 100 sessions at 0.60, desktop 50 sessions at 0.20
R_mobile  == Row(P_pricing, "mobile", "google", "organic", "Organic Search",
                 100, 90, 40, 60000, 30500, 40, 1200, 1500, 40000, 300)
R_desktop == Row(P_pricing, "desktop", "(direct)", "(none)", "Direct",
                 50, 45, 10, 20000, 120200, 40, 2400, 3200, 80000, 200)
\* rows without sessions
R_zero1   == Row(P_a, "mobile", "google", "organic", "Organic Search",
                 0, 1, 1, 100000, 0, 0, 0, 0, 0, 2)
R_zero2   == Row(P_pricing, "tablet", "(direct)", "(none)", "Direct",
                 0, 2, 0, 90000, 4125, 0, 3, 1000, 0, 1)
\* three rows whose weighted bounce rate is 0.31255 exactly
R_tie1    == Row(P_ab, "mobile", "google", "organic", "Organic Search",
                 135, 120, 60, 21320, 10000, 100, 900, 1000, 78681, 400)
R_tie2    == Row(P_ab, "desktop", "google", "organic", "Organic Search",
                 135, 130, 50, 39190, 20000, 80, 800, 2000, 60811, 500)
R_tie3    == Row(P_ab, "tablet", "(direct)", "(none)", "Direct",
                 80, 70, 30, 34630, 30000, 50, 700, 3000, 65371, 100)
R_c       == Row(P_c, "desktop", "(direct)", "(none)", "Direct",
                 3, 3, 2, 33333, 61234, 1, 10, 1111, 66667, 7)

RowPool == {R_mobile, R_desktop, R_zero1, R_zero2, R_tie1, R_tie2, R_tie3, R_c}

---------------------------------------------------------------------------
(* get_page_performance *)

\* FilterRows without the fail-open fallback of line 227
FilterRowsNoFallback(rs, us) ==
    IF us = <<>> THEN rs
    ELSE
      LET kept      == SelectSeq(us, LAMBDA u : u # <<>>)
          url_paths == [i \in 1..Len(kept) |->
                          IF UrlPath(kept[i]) = <<>> THEN <<"/">> ELSE UrlPath(kept[i])]
          Match(r)  == \E i \in 1..Len(url_paths) :
                          r.pagePath = url_paths[i] \/ startswith(r.pagePath, url_paths[i])
      IN  IF url_paths = <<>> THEN rs ELSE SelectSeq(rs, Match)

\* lines 221-227 (and 102-108 of analyze_ga4): the URL filter, fail-open
FilterRows(rs, us) ==
    IF us = <<>> THEN rs
    ELSE
      LET kept      == SelectSeq(us, LAMBDA u : u # <<>>)
          url_paths == [i \in 1..Len(kept) |->
                          IF UrlPath(kept[i]) = <<>> THEN <<"/">> ELSE UrlPath(kept[i])]
          Match(r)  == \E i \in 1..Len(url_paths) :
                          r.pagePath = url_paths[i] \/ startswith(r.pagePath, url_paths[i])
          filtered  == SelectSeq(rs, Match)
      IN  IF url_paths = <<>> THEN rs
          ELSE IF filtered # <<>> THEN filtered ELSE rs

\* lines 233-242.  The four weighted sums are kept exact; _rows, the rows
\* added so far, says in which order Python added them as floats.
NewPage(path) ==
    [pagePath |-> path,
     sessions |-> 0, totalUsers |-> 0, newUsers |-> 0,
     engagedSessions |-> 0, eventCount |-> 0,
     userEngagementDuration |-> 0,
     devices |-> <<>>, sources |-> <<>>, channels |-> <<>>,
     _weighted_bounce |-> 0, _weighted_duration |-> 0,
     _weighted_pages_per_session |-> 0, _weighted_engagement_rate |-> 0,
     _rows |-> <<>>]

\* AddRow with the rates summed without their weight
AddRowUnweighted(p, row) ==
    LET s   == row.sessions
        src == <<row.sessionSource, " / ", row.sessionMedium>>
    IN  [p EXCEPT
           !.sessions = @ + s,
           !.totalUsers = @ + row.totalUsers,
           !.newUsers = @ + row.newUsers,
           !.engagedSessions = @ + row.engagedSessions,
           !.eventCount = @ + row.eventCount,
           !.userEngagementDuration = @ + row.userEngagementDuration,
           !._weighted_bounce = @ + row.bounceRate,
           !._weighted_duration = @ + row.averageSessionDuration,
           !._weighted_pages_per_session = @ + row.screenPageViewsPerSession,
           !._weighted_engagement_rate = @ + row.engagementRate,
           !._rows = Append(@, row),
           !.devices = DictSet(@, row.deviceCategory,
                               DictGet(@, row.deviceCategory, 0) + s),
           !.sources = DictSet(@, src, DictGet(@, src, 0) + s),
           !.channels = DictSet(@, row.sessionDefaultChannelGroup,
                                DictGet(@, row.sessionDefaultChannelGroup, 0) + s)]

\* lines 244-267: one row added to its page
AddRow(p, row) ==
    LET s   == row.sessions
        src == <<row.sessionSource, " / ", row.sessionMedium>>
    IN  [p EXCEPT
           !.sessions = @ + s,
           !.totalUsers = @ + row.totalUsers,
           !.newUsers = @ + row.newUsers,
           !.engagedSessions = @ + row.engagedSessions,
           !.eventCount = @ + row.eventCount,
           !.userEngagementDuration = @ + row.userEngagementDuration,
           !._weighted_bounce = @ + row.bounceRate * s,
           !._weighted_duration = @ + row.averageSessionDuration * s,
           !._weighted_pages_per_session = @ + row.screenPageViewsPerSession * s,
           !._weighted_engagement_rate = @ + row.engagementRate * s,
           !._rows = Append(@, row),
           !.devices = DictSet(@, row.deviceCategory,
                               DictGet(@, row.deviceCategory, 0) + s),
           !.sources = DictSet(@, src, DictGet(@, src, 0) + s),
           !.channels = DictSet(@, row.sessionDefaultChannelGroup,
                                DictGet(@, row.sessionDefaultChannelGroup, 0) + s)]

\* FoldRow where a later row of a page replaces what the page had
FoldRowReplacing(ps, row) ==
    DictSet(ps, row.pagePath, AddRow(NewPage(row.pagePath), row))

\* lines 231-267: the dict pages, in insertion order, after one more row
FoldRow(ps, row) ==
    LET old == DictGet(ps, row.pagePath, NewPage(row.pagePath))
    IN  DictSet(ps, row.pagePath, AddRow(old, row))

RECURSIVE FoldRows(_, _)
FoldRows(ps, rs) ==
    IF rs = <<>> THEN ps ELSE FoldRows(FoldRow(ps, Head(rs)), Tail(rs))

StartsWithUnderscore(key) ==
    key \in {"_weighted_bounce", "_weighted_duration",
             "_weighted_pages_per_session", "_weighted_engagement_rate", "_rows"}

\* lines 252-255: the float that `+=` leaves in a weighted sum after the
\* rows rs, the metric read in units of 1 / scale
RECURSIVE float_weighted(_, _, _, _)
float_weighted(acc, rs, metric, scale) ==
    IF rs = <<>> THEN acc
    ELSE float_weighted(float_add(acc, float_mul(float(Head(rs)[metric], scale),
                                                 Head(rs).sessions)),
                        Tail(rs), metric, scale)

\* lines 273-276: round(weighted sum / t, n), in units of the n-th decimal
\* place.  exact is the sum in units of 1 / scale; where exact / t is a
\* decimal tie the float decides on which side round falls.
WeightedAverage(p, exact, metric, scale, units, t) ==
    round(exact, (scale \div units) * t,
          float_round_up(float_div(float_weighted(float(0, 1), p._rows, metric, scale), t),
                         units))

\* Finalize dividing by the users where the code divides by the sessions
FinalizeByUsers(p) ==
    LET t == p.sessions
        u == p.totalUsers
        q == IF t > 0 /\ u > 0
             THEN [bounceRate |-> WeightedAverage(p, p._weighted_bounce,
                                     "bounceRate", 100000, 10000, u),
                   averageSessionDuration |-> WeightedAverage(p, p._weighted_duration,
                                     "averageSessionDuration", 1000, 100, u),
                   pagesPerSession |-> WeightedAverage(p, p._weighted_pages_per_session,
                                     "screenPageViewsPerSession", 1000, 100, u),
                   engagementRate |-> WeightedAverage(p, p._weighted_engagement_rate,
                                     "engagementRate", 100000, 10000, u),
                   avgEngagementDuration |->
                       round(p.userEngagementDuration * 100, u,
                             float_round_up(float_div(float(p.userEngagementDuration, 1), u), 100)),
                   returningUsers |-> p.totalUsers - p.newUsers] @@ p
             ELSE p
    IN  Restrict(q, {key \in DOMAIN q : ~StartsWithUnderscore(key)})

\* Finalize with the clean-up under `if t > 0`, next to the averages
FinalizeCleaningWeighted(p) ==
    LET t == p.sessions
        q == [bounceRate |-> WeightedAverage(p, p._weighted_bounce,
                                "bounceRate", 100000, 10000, t),
              averageSessionDuration |-> WeightedAverage(p, p._weighted_duration,
                                "averageSessionDuration", 1000, 100, t),
              pagesPerSession |-> WeightedAverage(p, p._weighted_pages_per_session,
                                "screenPageViewsPerSession", 1000, 100, t),
              engagementRate |-> WeightedAverage(p, p._weighted_engagement_rate,
                                "engagementRate", 100000, 10000, t),
              avgEngagementDuration |->
                  round(p.userEngagementDuration * 100, t,
                        float_round_up(float_div(float(p.userEngagementDuration, 1), t), 100)),
              returningUsers |-> p.totalUsers - p.newUsers] @@ p
    IN  IF t > 0 THEN Restrict(q, {key \in DOMAIN q : ~StartsWithUnderscore(key)})
        ELSE Restrict(p, DOMAIN p \ {"_rows"})

\* lines 270-282: the weighted averages of one page, and the clean-up
Finalize(p) ==
    LET t == p.sessions
        q == IF t > 0
             THEN [bounceRate |-> WeightedAverage(p, p._weighted_bounce,
                                     "bounceRate", 100000, 10000, t),
                   averageSessionDuration |-> WeightedAverage(p, p._weighted_duration,
                                     "averageSessionDuration", 1000, 100, t),
                   pagesPerSession |-> WeightedAverage(p, p._weighted_pages_per_session,
                                     "screenPageViewsPerSession", 1000, 100, t),
                   engagementRate |-> WeightedAverage(p, p._weighted_engagement_rate,
                                     "engagementRate", 100000, 10000, t),
                   avgEngagementDuration |->
                       round(p.userEngagementDuration * 100, t,
                             float_round_up(float_div(float(p.userEngagementDuration, 1), t), 100)),
                   returningUsers |-> p.totalUsers - p.newUsers] @@ p
             ELSE p
    IN  Restrict(q, {key \in DOMAIN q : ~StartsWithUnderscore(key)})

\* lines 229-284
AggregateByPage(rs) ==
    LET ps == FoldRows(<<>>, rs)
    IN  [i \in 1..Len(ps) |-> Finalize(ps[i].v)]

get_page_performance(rs, us) == AggregateByPage(FilterRows(rs, us))

---------------------------------------------------------------------------
(* aggregate_basic, the legacy /analyze path *)

\* lines 92-100: the row analyze_ga4 builds from the legacy report
LegacyRow(r) ==
    [pagePath |-> r.pagePath, deviceCategory |-> r.deviceCategory,
     sessions |-> r.sessions, totalUsers |-> r.totalUsers,
     bounceRate |-> r.bounceRate,
     averageSessionDuration |-> r.averageSessionDuration,
     engagedSessions |-> r.engagedSessions]

\* lines 135-149
BasicFoldRow(agg, row) ==
    LET old == DictGet(agg, row.pagePath,
                       [pagePath |-> row.pagePath,
                        sessions |-> 0, totalUsers |-> 0,
                        bounceRate |-> 0, averageSessionDuration |-> 0,
                        engagedSessions |-> 0, devices |-> <<>>])
    IN  DictSet(agg, row.pagePath,
                [old EXCEPT
                   !.sessions = @ + row.sessions,
                   !.totalUsers = @ + row.totalUsers,
                   !.engagedSessions = @ + row.engagedSessions,
                   !.devices = Append(@, [device |-> row.deviceCategory,
                                          sessions |-> row.sessions])])

RECURSIVE BasicFoldRows(_, _)
BasicFoldRows(agg, rs) ==
    IF rs = <<>> THEN agg ELSE BasicFoldRows(BasicFoldRow(agg, Head(rs)), Tail(rs))

\* lines 151-159
BasicFinalize(data, results, fp) ==
    LET total == data.sessions
        mine  == SelectSeq(results, LAMBDA r : r.pagePath = data.pagePath)
        wb    == SumSeq([i \in 1..Len(mine) |-> mine[i].bounceRate * mine[i].sessions])
        wd    == SumSeq([i \in 1..Len(mine) |->
                            mine[i].averageSessionDuration * mine[i].sessions])
    IN  IF total > 0
        THEN [data EXCEPT !.bounceRate = round(wb, 10 * total, fp),
                          !.averageSessionDuration = round(wd, 10 * total, fp)]
        ELSE data

\* lines 131-160; the values of the returned dict, in its order
aggregate_basic(results, fp) ==
    LET agg == BasicFoldRows(<<>>, results)
    IN  [i \in 1..Len(agg) |-> BasicFinalize(agg[i].v, results, fp)]

\* lines 90-110 of analyze_ga4: the rows built, filtered and aggregated
analyze_ga4_data(rs, us, fp) ==
    aggregate_basic(FilterRows([i \in 1..Len(rs) |-> LegacyRow(rs[i])], us), fp)

---------------------------------------------------------------------------
(* build_data_summary: the text as a sequence of lines, each a record of   *)
(* the line's template and the values formatted into it                    *)

KeyError(key) == [exc |-> "KeyError", key |-> key]

IsExc(x) == "exc" \in DOMAIN x

Min(a, b) == IF a <= b THEN a ELSE b

\* s[:n]
Take(s, n) == SubSeq(s, 1, Min(n, Len(s)))

\* a sort that is not stable: equal keys come out in reverse order
SortDescUnstable(s, keys) ==
    LET n      == Len(s)
        pos(i) == Cardinality({j \in 1..n : keys[j] > keys[i]})
                  + Cardinality({j \in (i + 1)..n : keys[j] = keys[i]}) + 1
    IN  [m \in 1..n |-> s[CHOOSE i \in 1..n : pos(i) = m]]

\* sorted(s, key=Key, reverse=True), and sorted(s, key=lambda x: -Key(x)):
\* Python's sort is stable, equal keys keep their order
\* keys[i] is the key of s[i]
SortDesc(s, keys) ==
    LET n      == Len(s)
        pos(i) == Cardinality({j \in 1..n : keys[j] > keys[i]})
                  + Cardinality({j \in 1..(i - 1) : keys[j] = keys[i]}) + 1
    IN  [m \in 1..n |-> s[CHOOSE i \in 1..n : pos(i) = m]]

TopPages    == 15
TopPages30d == 10
TopEvents   == 15
TopLandings == 10
TopLandingChannels == 3
TopCountries == 10
TopCities   == 10
TopChannels == 5
TopSources  == 5

\* line 496
PctStr(pct) == IF pct = None THEN [fmt |-> "N/A"] ELSE [fmt |-> "+.1f%", tenths |-> pct[1]]

\* lines 493-504: one metric of one period
TotalsLine(metric, vals, fp) ==
    IF metric \in {"bounceRate", "engagementRate"}
    THEN [t |-> "total rate", metric |-> metric,
          curr |-> round(vals.current, 100, fp),
          prev |-> round(vals.previous, 100, fp),
          change |-> PctStr(vals.change_pct)]
    ELSE IF metric = "averageSessionDuration"
    THEN [t |-> "total seconds", metric |-> metric,
          curr |-> round(vals.current, 100, fp),
          prev |-> round(vals.previous, 100, fp),
          change |-> PctStr(vals.change_pct)]
    ELSE [t |-> "total count", metric |-> metric,
          curr |-> vals.current, prev |-> vals.previous,
          change |-> PctStr(vals.change_pct)]

\* lines 485-504
PeriodLines(pd, fp) ==
    <<[t |-> "period", label |-> pd.label],
      [t |-> "Current period", range |-> pd.date_range.current],
      [t |-> "Comparison period", range |-> pd.date_range.previous]>>
    \o [i \in 1..Len(pd.totals) |-> TotalsLine(pd.totals[i].k, pd.totals[i].v, fp)]

\* the values of a dict, and the sessions of a list of records, in order
DictValues(d) == [i \in 1..Len(d) |-> d[i].v]
SessionsOf(s) == [i \in 1..Len(s) |-> s[i].sessions]

\* lines 548-554: the week-over-week line of a page
CompareLines(page, prev, fp) ==
    IF prev = None THEN <<>>
    ELSE
      LET s_change == page.sessions - prev[1].sessions
          s_pct    == IF prev[1].sessions > 0
                      THEN round(s_change * 1000, prev[1].sessions, fp)
                      ELSE 0
      IN  IF "bounceRate" \notin DOMAIN prev[1] THEN <<KeyError("bounceRate")>>
          ELSE <<[t |-> "vs previous 7 days", path |-> page.pagePath,
                  sessions |-> s_change,
                  change |-> [fmt |-> "+.1f%", tenths |-> s_pct],
                  bounce |-> round(page.bounceRate - prev[1].bounceRate, 10, fp)]>>

\* lines 519-554: the lines of one page of the 7-day section
PageLines(page, prev, fp) ==
    LET head == <<[t |-> "Page", path |-> page.pagePath],
                  [t |-> "Sessions", path |-> page.pagePath, v |-> page.sessions],
                  [t |-> "Users", path |-> page.pagePath,
                   users |-> page.totalUsers, new |-> page.newUsers,
                   returning |-> IF "returningUsers" \in DOMAIN page
                                 THEN page.returningUsers ELSE 0]>>
        tally(name, d, n) ==
            IF d = <<>> THEN <<>>
            ELSE <<[t |-> name, path |-> page.pagePath,
                    items |-> Take(SortDesc(d, DictValues(d)), n)]>>
    IN  IF "bounceRate" \notin DOMAIN page
        THEN Append(head, KeyError("bounceRate"))
        ELSE IF "engagementRate" \notin DOMAIN page
        THEN Append(head, KeyError("engagementRate"))
        ELSE IF "averageSessionDuration" \notin DOMAIN page
        THEN Append(head, KeyError("averageSessionDuration"))
        ELSE head
             \o <<[t |-> "Bounce rate", path |-> page.pagePath,
                   v |-> round(page.bounceRate, 10, fp)],
                  [t |-> "Engagement rate", path |-> page.pagePath,
                   v |-> round(page.engagementRate, 10, fp)],
                  [t |-> "Avg session duration", path |-> page.pagePath,
                   v |-> round(page.averageSessionDuration, 10, fp)],
                  [t |-> "Avg engagement duration", path |-> page.pagePath,
                   v |-> IF "avgEngagementDuration" \in DOMAIN page
                         THEN round(page.avgEngagementDuration, 10, fp) ELSE 0],
                  [t |-> "Pages per session", path |-> page.pagePath,
                   v |-> IF "pagesPerSession" \in DOMAIN page
                         THEN round(page.pagesPerSession, 10, fp) ELSE 0],
                  [t |-> "Events fired", path |-> page.pagePath, v |-> page.eventCount]>>
             \o tally("Devices", page.devices, Len(page.devices))
             \o tally("Top channels", page.channels, TopChannels)
             \o tally("Top sources", page.sources, TopSources)
             \o CompareLines(page, prev, fp)

\* lines 564-569: the lines of one page of the 30-day section
Page30dLines(page, fp) ==
    LET head == <<[t |-> "Page", path |-> page.pagePath],
                  [t |-> "Sessions | Users", path |-> page.pagePath,
                   sessions |-> page.sessions, users |-> page.totalUsers]>>
    IN  IF "bounceRate" \notin DOMAIN page
        THEN Append(head, KeyError("bounceRate"))
        ELSE IF "engagementRate" \notin DOMAIN page
        THEN Append(head, KeyError("engagementRate"))
        ELSE IF "averageSessionDuration" \notin DOMAIN page
        THEN Append(head, KeyError("averageSessionDuration"))
        ELSE head
             \o <<[t |-> "Bounce | Engagement", path |-> page.pagePath,
                   bounce |-> round(page.bounceRate, 10, fp),
                   engagement |-> round(page.engagementRate, 10, fp)],
                  [t |-> "Avg duration", path |-> page.pagePath,
                   v |-> round(page.averageSessionDuration, 10, fp)]>>

RECURSIVE Concat(_)
Concat(ss) == IF ss = <<>> THEN <<>> ELSE Head(ss) \o Concat(Tail(ss))

\* PagePerformanceLines over pages that come in an order of their own at
\* every call, as the elements of a set do
PagePerformanceLinesUnordered(all_data, fp) ==
    LET current_pages == all_data.page_performance.current
        top == Take(IF fp THEN SortDesc(current_pages, SessionsOf(current_pages))
                    ELSE SortDescUnstable(current_pages, SessionsOf(current_pages)),
                    TopPages)
    IN  <<[t |-> "PAGE PERFORMANCE - LAST 7 DAYS"]>>
        \o Concat([i \in 1..Len(top) |-> PageLines(top[i], None, fp)])

\* lines 506-554
PagePerformanceLines(all_data, fp) ==
    LET current_pages  == all_data.page_performance.current
        previous_pages == all_data.page_performance.previous
        \* line 513: a dict comprehension, the last page of a path wins
        prev_lookup(path) ==
            LET hits == {i \in 1..Len(previous_pages) : previous_pages[i].pagePath = path}
            IN  IF hits = {} THEN None
                ELSE Some(previous_pages[CHOOSE i \in hits : \A j \in hits : j <= i])
        top == Take(SortDesc(current_pages, SessionsOf(current_pages)), TopPages)
    IN  <<[t |-> "PAGE PERFORMANCE - LAST 7 DAYS"]>>
        \o Concat([i \in 1..Len(top) |->
                     PageLines(top[i], prev_lookup(top[i].pagePath), fp)])

\* lines 556-569
PagePerformance30dLines(all_data, fp) ==
    LET pages_30d == all_data.page_performance_30d
        top       == Take(SortDesc(pages_30d, SessionsOf(pages_30d)), TopPages30d)
    IN  <<[t |-> "PAGE PERFORMANCE - LAST 30 DAYS"]>>
        \o Concat([i \in 1..Len(top) |-> Page30dLines(top[i], fp)])

\* lines 480-504
SiteTrendLines(all_data, fp) ==
    <<[t |-> "SITE-LEVEL TRENDS ACROSS PERIODS"]>>
    \o PeriodLines(all_data.last_7_days, fp)
    \o PeriodLines(all_data.last_30_days, fp)
    \o PeriodLines(all_data.year_over_year, fp)

\* lines 571-579
EventLines(all_data) ==
    LET evs == all_data.events
        top == Take(SortDesc(evs, [i \in 1..Len(evs) |-> evs[i].eventCount]), TopEvents)
    IN  <<[t |-> "USER EVENTS (excluding default GA4 events)"]>>
        \o [i \in 1..Len(top) |->
              [t |-> "event", name |-> top[i].eventName,
               events |-> top[i].eventCount, users |-> top[i].totalUsers]]

\* lines 589-595: one landing-page row added to lp_agg
LandingFold(agg, lp) ==
    LET old == DictGet(agg, lp.landingPage, [sessions |-> 0, channels |-> <<>>])
        ch  == lp.sessionDefaultChannelGroup
    IN  DictSet(agg, lp.landingPage,
                [sessions |-> old.sessions + lp.sessions,
                 channels |-> DictSet(old.channels, ch,
                                      DictGet(old.channels, ch, 0) + lp.sessions)])

RECURSIVE LandingAgg(_, _)
LandingAgg(agg, landings) ==
    IF landings = <<>> THEN agg
    ELSE LandingAgg(LandingFold(agg, Head(landings)), Tail(landings))

\* the sessions of the values of a dict of records, in order
ItemSessions(d) == [i \in 1..Len(d) |-> d[i].v.sessions]

\* lines 581-599
LandingLines(all_data) ==
    LET lp_agg == LandingAgg(<<>>, all_data.landing_pages)
        top    == Take(SortDesc(lp_agg, ItemSessions(lp_agg)), TopLandings)
    IN  <<[t |-> "LANDING PAGES (entry points)"]>>
        \o [i \in 1..Len(top) |->
              [t |-> "landing", path |-> top[i].k, sessions |-> top[i].v.sessions,
               channels |-> Take(SortDesc(top[i].v.channels,
                                          DictValues(top[i].v.channels)),
                                 TopLandingChannels)]]

\* lines 609-611
CountryFold(agg, g) == DictSet(agg, g.country, DictGet(agg, g.country, 0) + g.sessions)

RECURSIVE CountryAgg(_, _)
CountryAgg(agg, geo) ==
    IF geo = <<>> THEN agg ELSE CountryAgg(CountryFold(agg, Head(geo)), Tail(geo))

\* lines 601-619
GeoLines(all_data, fp) ==
    LET geo         == all_data.geographic
        country_agg == CountryAgg(<<>>, geo)
        top         == Take(SortDesc(country_agg, DictValues(country_agg)), TopCountries)
        cities      == Take(SortDesc(geo, SessionsOf(geo)), TopCities)
    IN  <<[t |-> "GEOGRAPHIC BREAKDOWN"]>>
        \o [i \in 1..Len(top) |->
              [t |-> "country", country |-> top[i].k, sessions |-> top[i].v]]
        \o <<[t |-> "Top cities:"]>>
        \o [i \in 1..Len(cities) |->
              [t |-> "city", city |-> cities[i].city, country |-> cities[i].country,
               sessions |-> cities[i].sessions,
               engagement |-> round(cities[i].engagementRate, 100, fp)]]

Digits == <<"0", "1", "2", "3", "4", "5", "6", "7", "8", "9">>

\* int(text) of a dimension value: a sequence of digits, or ValueError
RECURSIVE ParseDigits(_, _)
ParseDigits(acc, text) ==
    IF text = <<>> THEN acc
    ELSE ParseDigits(10 * acc + (CHOOSE d \in 0..9 : Digits[d + 1] = Head(text)),
                     Tail(text))

IsInt(text) == text # <<>> /\ \A i \in 1..Len(text) : \E d \in 1..10 : Digits[d] = text[i]

\* lines 629-631 and 641-643
HourFold(agg, row) ==
    LET h == ParseDigits(0, row.hour)
    IN  DictSet(agg, h, DictGet(agg, h, 0) + row.sessions)

DayFold(agg, row) ==
    LET d == ParseDigits(0, row.dayOfWeek)
    IN  DictSet(agg, d, DictGet(agg, d, 0) + row.sessions)

RECURSIVE HourAgg(_, _)
HourAgg(agg, tod) ==
    IF tod = <<>> THEN agg ELSE HourAgg(HourFold(agg, Head(tod)), Tail(tod))

RECURSIVE DayAgg(_, _)
DayAgg(agg, tod) ==
    IF tod = <<>> THEN agg ELSE DayAgg(DayFold(agg, Head(tod)), Tail(tod))

\* max(d, key=d.get) and min(d, key=d.get): the first key, in the dict's order,
\* whose value is the greatest (the least)
ArgMax(d) ==
    d[CHOOSE i \in 1..Len(d) :
        /\ \A j \in 1..Len(d) : d[j].v <= d[i].v
        /\ \A j \in 1..(i - 1) : d[j].v < d[i].v].k

ArgMin(d) ==
    d[CHOOSE i \in 1..Len(d) :
        /\ \A j \in 1..Len(d) : d[j].v >= d[i].v
        /\ \A j \in 1..(i - 1) : d[j].v > d[i].v].k

day_names == <<"Sunday", "Monday", "Tuesday", "Wednesday", "Thursday", "Friday",
               "Saturday">>

\* lines 621-649
TimeLines(all_data) ==
    LET tod      == all_data.time_of_day
        hour_agg == HourAgg(<<>>, tod)
        day_agg  == DayAgg(<<>>, tod)
        days     == SelectSeq([d \in 1..7 |-> d - 1], LAMBDA d : d \in DictKeys(day_agg))
    IN  <<[t |-> "TRAFFIC PATTERNS BY TIME"]>>
        \o (IF \E i \in 1..Len(tod) : ~IsInt(tod[i].hour)
            THEN <<[exc |-> "ValueError", key |-> "hour"]>>
            ELSE IF hour_agg = <<>> THEN <<>>
            ELSE <<[t |-> "Peak hour", hour |-> ArgMax(hour_agg),
                    sessions |-> DictGet(hour_agg, ArgMax(hour_agg), 0)],
                   [t |-> "Quietest hour", hour |-> ArgMin(hour_agg),
                    sessions |-> DictGet(hour_agg, ArgMin(hour_agg), 0)]>>)
        \o (IF \E i \in 1..Len(tod) : ~IsInt(tod[i].dayOfWeek)
            THEN <<[exc |-> "ValueError", key |-> "dayOfWeek"]>>
            ELSE IF day_agg = <<>> THEN <<>>
            ELSE IF ArgMax(day_agg) >= Len(day_names)
            THEN <<[exc |-> "IndexError", key |-> "day_names"]>>
            ELSE <<[t |-> "Peak day", day |-> day_names[ArgMax(day_agg) + 1],
                    sessions |-> DictGet(day_agg, ArgMax(day_agg), 0)]>>
                 \o [i \in 1..Len(days) |->
                       [t |-> "day", day |-> day_names[days[i] + 1],
                        sessions |-> DictGet(day_agg, days[i], 0)]])

\* lines 659-666
ChannelFold(agg, a) ==
    LET ch  == a.sessionDefaultChannelGroup
        old == DictGet(agg, ch, [sessions |-> 0, newUsers |-> 0,
                                 _bounce_w |-> 0, _eng_w |-> 0])
    IN  DictSet(agg, ch,
                [sessions |-> old.sessions + a.sessions,
                 newUsers |-> old.newUsers + a.newUsers,
                 _bounce_w |-> old._bounce_w + a.bounceRate * a.sessions,
                 _eng_w |-> old._eng_w + a.engagementRate * a.sessions])

RECURSIVE ChannelAgg(_, _)
ChannelAgg(agg, acq) ==
    IF acq = <<>> THEN agg ELSE ChannelAgg(ChannelFold(agg, Head(acq)), Tail(acq))

\* lines 651-672
AcquisitionLines(all_data, fp) ==
    LET ch_agg == ChannelAgg(<<>>, all_data.acquisition)
        sorted == SortDesc(ch_agg, ItemSessions(ch_agg))
    IN  <<[t |-> "ACQUISITION CHANNELS"]>>
        \o [i \in 1..Len(sorted) |->
              LET info == sorted[i].v
                  s    == info.sessions
              IN  [t |-> "channel", channel |-> sorted[i].k, sessions |-> s,
                   newUsers |-> info.newUsers,
                   bounce |-> IF s > 0 THEN round(info._bounce_w, 100 * s, fp) ELSE 0,
                   engagement |-> IF s > 0 THEN round(info._eng_w, 100 * s, fp) ELSE 0]]

\* lines 474-674: [text |-> the lines], or the exception the first failing line
\* raises
build_data_summary(all_data, fp) ==
    LET lines  == SiteTrendLines(all_data, fp)
                  \o PagePerformanceLines(all_data, fp)
                  \o PagePerformance30dLines(all_data, fp)
                  \o EventLines(all_data)
                  \o LandingLines(all_data)
                  \o GeoLines(all_data, fp)
                  \o TimeLines(all_data)
                  \o AcquisitionLines(all_data, fp)
        raised == {i \in 1..Len(lines) : IsExc(lines[i])}
    IN  IF raised = {} THEN [text |-> lines]
        ELSE lines[CHOOSE i \in raised : \A j \in raised : i <= j]

---------------------------------------------------------------------------
(* get_site_totals and the period comparison of collect_all_data *)

\* A metric value as run_ga4_report leaves it: a number (int or float), or
\* the source's text where neither int() nor float() parses it
Num(n) == [type |-> "num", n |-> n]
Str(x) == [type |-> "str", s |-> x]

\* isinstance(v, (int, float))
IsNumber(v) == v.type = "num"

\* line 369: the first row, or {} when the report has no row
get_site_totals(report) == IF report # <<>> THEN report[1] ELSE <<>>

\* PctChange with 0 where the code gives None
PctChangeZero(curr_val, prev_val, fp) ==
    IF prev_val > 0
    THEN Some(round((curr_val - prev_val) * 1000, prev_val, fp))
    ELSE Some(0)

\* lines 426-429; change_pct in tenths of a percent
PctChange(curr_val, prev_val, fp) ==
    IF prev_val > 0
    THEN Some(round((curr_val - prev_val) * 1000, prev_val, fp))
    ELSE None

\* CompareTotals reading a value that is not a number as 0
CompareTotalsCoercing(curr, prev, fp) ==
    LET number(v) == IF IsNumber(v) THEN v.n ELSE 0
        prev_val(metric) == number(DictGet(prev, metric, Num(0)))
    IN  [i \in 1..Len(curr) |->
           [k |-> curr[i].k,
            v |-> [current |-> number(curr[i].v),
                   previous |-> prev_val(curr[i].k),
                   change_pct |-> PctChange(number(curr[i].v), prev_val(curr[i].k), fp)]]]

\* lines 421-434
CompareTotals(curr, prev, fp) ==
    LET prev_val(metric) == DictGet(prev, metric, Num(0))
        reported == SelectSeq(curr, LAMBDA e : IsNumber(e.v) /\ IsNumber(prev_val(e.k)))
    IN  [i \in 1..Len(reported) |->
           [k |-> reported[i].k,
            v |-> [current |-> reported[i].v.n,
                   previous |-> prev_val(reported[i].k).n,
                   change_pct |-> PctChange(reported[i].v.n,
                                            prev_val(reported[i].k).n, fp)]]]

\* lines 385-407: the periods, their dates in days from now
periods ==
    [last_7_days |->
        [current_start |-> -7, current_end |-> 0,
         previous_start |-> -14, previous_end |-> -7,
         label |-> "Last 7 days"],
     last_30_days |->
        [current_start |-> -30, current_end |-> 0,
         previous_start |-> -60, previous_end |-> -30,
         label |-> "Last 30 days"],
     year_over_year |->
        [current_start |-> -7, current_end |-> 0,
         previous_start |-> -(365 + 7), previous_end |-> -365,
         label |-> "Last 7 days vs same period last year"]]

\* lines 436-443
PeriodEntry(period, totals) ==
    [label |-> period.label,
     date_range |-> [current |-> <<period.current_start, "to", period.current_end>>,
                     previous |-> <<period.previous_start, "to", period.previous_end>>],
     totals |-> totals]

\* lines 409-467: all_data, from what the thirteen reports gave.  t is the
\* totals of the three periods, r the results of the seven detail reports.
AllData(t, r) ==
    [last_7_days |-> PeriodEntry(periods.last_7_days, t.last_7_days),
     last_30_days |-> PeriodEntry(periods.last_30_days, t.last_30_days),
     year_over_year |-> PeriodEntry(periods.year_over_year, t.year_over_year),
     page_performance |-> [current |-> r.current, previous |-> r.previous],
     events |-> r.events,
     landing_pages |-> r.landing_pages,
     exit_pages |-> r.exit_pages,
     geographic |-> r.geographic,
     time_of_day |-> r.time_of_day,
     acquisition |-> r.acquisition,
     page_performance_30d |-> r.page_performance_30d]

NoTotals == [last_7_days |-> <<>>, last_30_days |-> <<>>, year_over_year |-> <<>>]

NoDetail == [current |-> <<>>, previous |-> <<>>, events |-> <<>>,
             landing_pages |-> <<>>, exit_pages |-> <<>>, geographic |-> <<>>,
             time_of_day |-> <<>>, acquisition |-> <<>>, page_performance_30d |-> <<>>]

---------------------------------------------------------------------------
(* get_event_data *)

\* the denylist with one name forgotten
noise_events_without_scroll == {"session_start", "first_visit", "page_view", "user_engagement"}

noise_events == {"session_start", "first_visit", "page_view", "user_engagement", "scroll"}

\* lines 297-298
get_event_data(report) == SelectSeq(report, LAMBDA r : r.eventName \notin noise_events)

---------------------------------------------------------------------------
(* The aggregation on its own: one page report, aggregated *)

AggIdle   == rows = <<>> /\ urls = <<>> /\ pages = <<>> /\ aggregated = <<>>
             /\ summary = [text |-> <<>>]
OrderIdle == rows2 = <<>> /\ pages2 = <<>> /\ summary2 = [text |-> <<>>]
CmpIdle   == current_totals = <<>> /\ previous_totals = <<>> /\ changes = <<>>
EventIdle == source_events = <<>> /\ events = <<>>
ReqIdle   == /\ route = "" /\ request_json = <<>> /\ calls = <<>> /\ reports = <<>> /\ collected = <<>>
             /\ insights = <<>> /\ images = <<>> /\ response = <<>>

InitAgg ==
    /\ pc = "start"
    /\ rows \in SeqsUpTo(RowPool, MaxRows)
    /\ urls \in UrlLists
    /\ pages = <<>>
    /\ aggregated = <<>>
    /\ summary = [text |-> <<>>]
    /\ OrderIdle /\ CmpIdle /\ EventIdle /\ ReqIdle

GetPagePerformance ==
    /\ pc = "start"
    /\ pages' = get_page_performance(rows, urls)
    /\ pc' = "aggregated"
    /\ UNCHANGED <<rows, urls, aggregated, summary, orderVars, cmpVars, eventVars, reqVars>>

AnalyzeGa4 ==
    /\ pc = "start"
    /\ \E fp \in BOOLEAN : aggregated' = analyze_ga4_data(rows, urls, fp)
    /\ pc' = "legacy"
    /\ UNCHANGED <<rows, urls, pages, summary, orderVars, cmpVars, eventVars, reqVars>>

\* build_data_summary of an all_data whose other reports had no rows
BuildDataSummary ==
    /\ pc = "aggregated"
    /\ \E fp \in BOOLEAN :
          summary' = build_data_summary(
                        AllData(NoTotals, [NoDetail EXCEPT !.current = pages]), fp)
    /\ pc' = "summarised"
    /\ UNCHANGED <<rows, urls, pages, aggregated, orderVars, cmpVars, eventVars, reqVars>>

NextAgg == GetPagePerformance \/ AnalyzeGa4 \/ BuildDataSummary

SpecAgg == InitAgg /\ [][NextAgg]_vars

---------------------------------------------------------------------------
(* The period comparison on its own: two site-totals snapshots, compared *)

SessionValues  == {0, 1000, 1200}
RateValues     == {0, 45000, 60000}

\* a site-totals row: every subset of three metrics, in the report's order
Snapshots ==
    {  (IF s = None THEN <<>> ELSE <<[k |-> "sessions", v |-> s[1]]>>)
    \o (IF u = None THEN <<>> ELSE <<[k |-> "totalUsers", v |-> u[1]]>>)
    \o (IF b = None THEN <<>> ELSE <<[k |-> "bounceRate", v |-> b[1]]>>)
       : s \in {None} \cup {Some(Num(n)) : n \in SessionValues},
         u \in {None, Some(Num(900))},
         b \in {None, Some(Str("(other)"))} \cup {Some(Num(n)) : n \in RateValues} }

InitCmp ==
    /\ pc = "start"
    /\ current_totals \in Snapshots
    /\ previous_totals \in Snapshots
    /\ changes = <<>>
    /\ AggIdle /\ OrderIdle /\ EventIdle /\ ReqIdle

Compare ==
    /\ pc = "start"
    /\ \E fp \in BOOLEAN :
          changes' = CompareTotals(current_totals, previous_totals, fp)
    /\ pc' = "compared"
    /\ UNCHANGED <<current_totals, previous_totals, aggVars, orderVars, eventVars, reqVars>>

NextCmp == Compare

SpecCmp == InitCmp /\ [][NextCmp]_vars

---------------------------------------------------------------------------
(* The event filter on its own *)

Event(name, count, users) == [eventName |-> name, eventCount |-> count, totalUsers |-> users]

EventPool == {Event("session_start", 500, 400), Event("signup_click", 12, 10),
              Event("page_view", 900, 400), Event("purchase", 12, 3),
              Event("scroll", 40, 30)}

InitEvents ==
    /\ pc = "start"
    /\ source_events \in SeqsUpTo(EventPool, MaxEvents)
    /\ events = <<>>
    /\ AggIdle /\ OrderIdle /\ CmpIdle /\ ReqIdle

GetEventData ==
    /\ pc = "start"
    /\ events' = get_event_data(source_events)
    /\ pc' = "filtered"
    /\ UNCHANGED <<source_events, aggVars, orderVars, cmpVars, reqVars>>

NextEvents == GetEventData

SpecEvents == InitEvents /\ [][NextEvents]_vars

---------------------------------------------------------------------------
(* The aggregation of one report whose rows come in two orders *)

\* the rows of rs in every order
Reorderings(rs) ==
    {[i \in 1..Len(rs) |-> rs[f[i]]] : f \in Permutations(1..Len(rs))}

InitOrder ==
    /\ pc = "start"
    /\ rows \in SeqsUpTo(RowPool, MaxRows)
    /\ rows2 \in Reorderings(rows)
    /\ urls = <<>>
    /\ pages = <<>>
    /\ pages2 = <<>>
    /\ aggregated = <<>>
    /\ summary = [text |-> <<>>]
    /\ summary2 = [text |-> <<>>]
    /\ CmpIdle /\ EventIdle /\ ReqIdle

\* get_page_performance of the report, and of the report in its other order
AggregateTwice ==
    /\ pc = "start"
    /\ pages' = get_page_performance(rows, urls)
    /\ pages2' = get_page_performance(rows2, urls)
    /\ pc' = "reaggregated"
    /\ UNCHANGED <<rows, rows2, urls, aggregated, summary, summary2, cmpVars, eventVars, reqVars>>

NextOrder == AggregateTwice

SpecOrder == InitOrder /\ [][NextOrder]_vars

---------------------------------------------------------------------------
(* POST /analyze-with-ai.  A text (a message, the insights) is a sequence of
   pieces: a piece is one white-space or control character, or a run of
   other characters with single spaces inside and none at its ends. *)

\* an exception raised by a collaborator: its type and its str(e)
Exception(type, message) == [exc |-> type, message |-> message]

\* str(e)
str(e) ==
    IF "message" \in DOMAIN e THEN e.message
    ELSE IF e.exc = "KeyError" THEN <<"'", e.key, "'">>
    ELSE IF e.exc = "IndexError" THEN <<"list index out of range">>
    ELSE <<"invalid literal for int() with base 10">>

\* lines 1002-1007: the envelope of the except clause, the traceback as the
\* functions on the stack where e was raised
FailureEnvelopeWithoutCause(e, stack) ==
    [status |-> 500,
     body |-> [success |-> FALSE, error |-> <<"Internal Server Error">>,
               error_type |-> "Exception", traceback |-> <<>>]]

FailureEnvelope(e, stack) ==
    [status |-> 500,
     body |-> [success |-> FALSE, error |-> str(e), error_type |-> e.exc,
               traceback |-> stack]]

\* lines 124-128: the envelope of the except clause of analyze_ga4
LegacyFailureEnvelope(e) ==
    [status |-> 500,
     body |-> [success |-> FALSE, error |-> str(e), error_type |-> e.exc]]

\* lines 47, 55, 57, 944, 948, 956
BadRequest(message) == [status |-> 400, body |-> [error |-> <<message>>]]

\* the payloads.  A payload is the record of the fields the handler reads,
\* None where the payload has no such key: data.get(key) is data[key], and
\* the payload {} has None everywhere.
ServiceAccount == <<[k |-> "client_email", v |-> "ga4@project.iam.gserviceaccount.com"]>>

Payloads ==
    [claude_api_key : {None, Some(""), Some("sk-ant-1")},
     property_id : {None, Some("123456789")},
     credentials : {None, Some(<<>>), Some(ServiceAccount)},
     urls : {None, Some(<<U_a>>)}]

EmptyPayload ==
    [claude_api_key |-> None, property_id |-> None, credentials |-> None, urls |-> None]

\* line 942: request.get_json() gives None, a payload, or raises
JsonBodies ==
    {[json |-> None]} \cup {[json |-> Some(d)] : d \in Payloads}
    \cup {Exception("BadRequest", <<"400 Bad Request: Failed to decode JSON object">>)}

\* lines 409-467: the fifteen sub-fetches of collect_all_data, in order
Queries ==
    <<[fetch |-> "get_site_totals", of |-> "last_7_days current"],
      [fetch |-> "get_site_totals", of |-> "last_7_days previous"],
      [fetch |-> "get_site_totals", of |-> "last_30_days current"],
      [fetch |-> "get_site_totals", of |-> "last_30_days previous"],
      [fetch |-> "get_site_totals", of |-> "year_over_year current"],
      [fetch |-> "get_site_totals", of |-> "year_over_year previous"],
      [fetch |-> "get_page_performance", of |-> "last_7_days current"],
      [fetch |-> "get_page_performance", of |-> "last_7_days previous"],
      [fetch |-> "get_event_data", of |-> "last_7_days current"],
      [fetch |-> "get_landing_pages", of |-> "last_7_days current"],
      [fetch |-> "get_exit_pages", of |-> "last_7_days current"],
      [fetch |-> "get_geographic_data", of |-> "last_7_days current"],
      [fetch |-> "get_time_of_day", of |-> "last_7_days current"],
      [fetch |-> "get_user_acquisition", of |-> "last_7_days current"],
      [fetch |-> "get_page_performance", of |-> "last_30_days current"]>>

\* collect_all_data without the exit pages
collect_all_data_without_exit_pages(fetched, us, fp) ==
    LET all == AllData([last_7_days |-> CompareTotals(get_site_totals(fetched[1]),
                                                      get_site_totals(fetched[2]), fp),
                        last_30_days |-> CompareTotals(get_site_totals(fetched[3]),
                                                       get_site_totals(fetched[4]), fp),
                        year_over_year |-> CompareTotals(get_site_totals(fetched[5]),
                                                         get_site_totals(fetched[6]), fp)],
                       [current |-> get_page_performance(fetched[7], us),
                        previous |-> get_page_performance(fetched[8], us),
                        events |-> get_event_data(fetched[9]),
                        landing_pages |-> fetched[10],
                        exit_pages |-> <<>>,
                        geographic |-> fetched[12],
                        time_of_day |-> fetched[13],
                        acquisition |-> fetched[14],
                        page_performance_30d |-> get_page_performance(fetched[15], us)])
    IN  Restrict(all, DOMAIN all \ {"exit_pages"})

\* collect_all_data where the URL filter falls back for the three page
\* reports together: as the current 7 days decide
collect_all_data_filtering_as_current(fetched, us, fp) ==
    LET fallback    == FilterRowsNoFallback(fetched[7], us) = <<>>
        filtered(n) == IF fallback THEN AggregateByPage(fetched[n])
                       ELSE AggregateByPage(FilterRowsNoFallback(fetched[n], us))
    IN  AllData([last_7_days |-> CompareTotals(get_site_totals(fetched[1]),
                                               get_site_totals(fetched[2]), fp),
                 last_30_days |-> CompareTotals(get_site_totals(fetched[3]),
                                                get_site_totals(fetched[4]), fp),
                 year_over_year |-> CompareTotals(get_site_totals(fetched[5]),
                                                  get_site_totals(fetched[6]), fp)],
                [current |-> filtered(7),
                 previous |-> filtered(8),
                 events |-> get_event_data(fetched[9]),
                 landing_pages |-> fetched[10],
                 exit_pages |-> fetched[11],
                 geographic |-> fetched[12],
                 time_of_day |-> fetched[13],
                 acquisition |-> fetched[14],
                 page_performance_30d |-> filtered(15)])

\* lines 409-467, what collect_all_data returns when the source returned
\* fetched, a report for every query of Queries
collect_all_data(fetched, us, fp) ==
    AllData([last_7_days |-> CompareTotals(get_site_totals(fetched[1]),
                                           get_site_totals(fetched[2]), fp),
             last_30_days |-> CompareTotals(get_site_totals(fetched[3]),
                                            get_site_totals(fetched[4]), fp),
             year_over_year |-> CompareTotals(get_site_totals(fetched[5]),
                                              get_site_totals(fetched[6]), fp)],
            [current |-> get_page_performance(fetched[7], us),
             previous |-> get_page_performance(fetched[8], us),
             events |-> get_event_data(fetched[9]),
             landing_pages |-> fetched[10],
             exit_pages |-> fetched[11],
             geographic |-> fetched[12],
             time_of_day |-> fetched[13],
             acquisition |-> fetched[14],
             page_performance_30d |-> get_page_performance(fetched[15], us)])

\* line 784: the placeholder analyze_with_claude returns for an exception
Placeholder(e) ==
    <<"<p style='color: red;'>Error generating AI insights:", " ">> \o str(e) \o <<"</p>">>

\* analyze_with_claude without its except clause
analyze_with_claude_raising(data_summary, answer) ==
    IF IsExc(data_summary) THEN data_summary
    ELSE IF IsExc(answer) THEN answer
    ELSE [returned |-> answer.text]

\* lines 682-784: data_summary is what build_data_summary gave, answer what
\* client.messages.create gave: the text, or the exception it raised.
\* The result is what the function returns, or the exception it raises.
analyze_with_claude(data_summary, answer) ==
    IF IsExc(data_summary) THEN [returned |-> Placeholder(data_summary)]
    ELSE IF IsExc(answer) THEN [returned |-> Placeholder(answer)]
    ELSE [returned |-> answer.text]

RECURSIVE collapse_spaces(_)
collapse_spaces(text) ==
    IF Len(text) < 2 THEN text
    ELSE IF text[1] = " " /\ text[2] = " " THEN collapse_spaces(Tail(text))
    ELSE <<text[1]>> \o collapse_spaces(Tail(text))

\* lines 973-980
sanitise(text) ==
    LET replaced == [i \in 1..Len(text) |->
                        IF text[i] \in {"\n", "\r", "\t"} THEN " " ELSE text[i]]
    IN  collapse_spaces(SelectSeq(replaced, LAMBDA c : c # "\f"))

TopCharts == 8

\* lines 795-919.  The charts generate_charts attempts, in order: a chart is
\* attempted when its data is there, and reading a page without the field
\* raises KeyError.  renders is the number of images pio.to_image renders
\* before it raises; whatever is raised ends the function with the charts
\* made so far.
ChartAttempts(all) ==
    LET current_pages == all.page_performance.current
        pages_sorted  == Take(SortDesc(current_pages, SessionsOf(current_pages)), TopCharts)
        has(field)    == \A i \in 1..Len(pages_sorted) : field \in DOMAIN pages_sorted[i]
    IN  (IF pages_sorted # <<>>
         THEN <<[chart |-> "sessions_chart", ok |-> TRUE],
                [chart |-> "bounce_rate_chart", ok |-> has("bounceRate")]>>
         ELSE <<>>)
     \o (IF \E i \in 1..Len(current_pages) : current_pages[i].devices # <<>>
         THEN <<[chart |-> "device_chart", ok |-> TRUE]>> ELSE <<>>)
     \o (IF all.acquisition # <<>>
         THEN <<[chart |-> "acquisition_chart", ok |-> TRUE]>> ELSE <<>>)
     \o (IF pages_sorted # <<>>
         THEN <<[chart |-> "engagement_chart", ok |-> has("engagementRate")]>>
         ELSE <<>>)

\* the first attempt that raises, or one more than there are attempts
FirstRaising(attempts, renders) ==
    LET bad == {i \in 1..Len(attempts) : ~attempts[i].ok \/ i > renders}
    IN  IF bad = {} THEN Len(attempts) + 1
        ELSE CHOOSE i \in bad : \A j \in bad : i <= j

generate_charts(all, renders) ==
    LET attempts == ChartAttempts(all)
    IN  [i \in 1..(FirstRaising(attempts, renders) - 1) |->
           [k |-> attempts[i].chart, v |-> "base64 png"]]

\* lines 818, 840, 865, 892, 913: the calls of pio.to_image generate_charts
\* makes; the last one raises when the renderer gives up
RenderCalls(all, renders) ==
    LET attempts == ChartAttempts(all)
        first    == FirstRaising(attempts, renders)
        n        == IF first <= Len(attempts) /\ attempts[first].ok THEN first ELSE first - 1
    IN  [i \in 1..n |->
           [call |-> "pio.to_image", query |-> 0,
            raised |-> IF i <= renders THEN None
                       ELSE Some([exc |-> "ValueError",
                                  message |-> <<"Image export failed">>])]]

\* lines 987-998
SuccessEnvelope(property_id, all, ai_insights, made) ==
    [status |-> 200,
     body |-> [success |-> TRUE,
               property_id |-> property_id,
               date_range |-> [start |-> -7, end |-> 0],
               total_pages |-> Len(all.page_performance.current),
               ga4_data |-> all.page_performance.current,
               ai_insights |-> ai_insights,
               charts |-> made]]

\* what the metrics source returns: site totals
T_now     == <<[k |-> "sessions", v |-> Num(1200)], [k |-> "bounceRate", v |-> Num(45000)]>>
T_before  == <<[k |-> "sessions", v |-> Num(1000)], [k |-> "bounceRate", v |-> Num(60000)]>>
T_nothing == <<[k |-> "sessions", v |-> Num(0)], [k |-> "bounceRate", v |-> Num(0)]>>

\* and a row of each of the other reports
L_home   == [landingPage |-> <<"/">>, sessionDefaultChannelGroup |-> "Organic Search",
             sessions |-> 80, totalUsers |-> 70, bounceRate |-> 40000,
             engagementRate |-> 60000, averageSessionDuration |-> 42000]
X_home   == [pagePath |-> <<"/">>, sessions |-> 75]
G_sydney == [country |-> "Australia", city |-> "Sydney", sessions |-> 60,
             totalUsers |-> 50, engagementRate |-> 62500]
H_monday == [hour |-> <<"1", "4">>, dayOfWeek |-> <<"1">>, sessions |-> 30,
             engagementRate |-> 50000]
A_search == [sessionDefaultChannelGroup |-> "Organic Search", sessionSource |-> "google",
             sessionMedium |-> "organic", newUsers |-> 40, sessions |-> 100,
             engagementRate |-> 40000, bounceRate |-> 60000,
             averageSessionDuration |-> 30500]

\* the reports the metrics source may return for the n-th query of Queries
SourceReports(n) ==
    CASE n = 1 -> {<<T_now>>, <<>>}
      [] n = 2 -> {<<T_before>>, <<T_nothing>>, <<>>}
      [] n \in {3, 5} -> {<<T_now>>}
      [] n = 4 -> {<<T_before>>}
      [] n = 6 -> {<<>>}
      [] n = 7 -> {<<R_mobile, R_desktop>>, <<R_tie1, R_mobile>>, <<R_zero1>>}
      [] n = 8 -> {<<>>, <<R_mobile>>, <<R_zero2>>}
      [] n = 9 -> {<<>>, <<Event("session_start", 500, 400), Event("signup_click", 12, 10)>>}
      [] n = 10 -> {<<L_home>>}
      [] n = 11 -> {<<X_home>>}
      [] n = 12 -> {<<G_sydney>>}
      [] n = 13 -> {<<H_monday>>}
      [] n = 14 -> {<<A_search>>, <<>>}
      [] n = 15 -> {<<R_mobile, R_desktop, R_c>>, <<>>}

\* what the collaborators may raise
SourceErrors ==
    {Exception("PermissionDenied",
               <<"403 User does not have sufficient permissions for this property">>),
     Exception("ServiceUnavailable", <<"503 The service is currently unavailable">>)}

AuthErrors ==
    {Exception("ValueError", <<"Service account info was not in the expected format">>)}

\* what client.messages.create may give
AiAnswers ==
    {[text |-> <<"<h2>Summary</h2>", "\n", "\n", "<p>Sessions are", "\t", " ", "up</p>", "\f">>],
     Exception("AuthenticationError", <<"Error code: 401", "\n", "invalid x-api-key">>)}

Call(name, n, raised) == [call |-> name, query |-> n, raised |-> raised]

Routes == {"/analyze", "/analyze-with-ai"}

\* the response of the route's except clause to the exception e
Failure(e, stack) ==
    IF route = "/analyze" THEN LegacyFailureEnvelope(e) ELSE FailureEnvelope(e, stack)

\* lines 45-57: what analyze_ga4 answers before it calls anything, None when
\* the payload passes
LegacyRejection(body) ==
    IF body.json = None \/ body.json[1] = EmptyPayload
    THEN Some(BadRequest("No JSON payload provided"))
    ELSE IF body.json[1].property_id = None \/ body.json[1].property_id[1] = ""
    THEN Some(BadRequest("property_id is required"))
    ELSE IF body.json[1].credentials = None \/ body.json[1].credentials[1] = <<>>
    THEN Some(BadRequest("credentials are required"))
    ELSE None

\* Rejection without the check of the credentials
RejectionWithoutCredentials(body) ==
    IF body.json = None \/ body.json[1] = EmptyPayload
    THEN Some(BadRequest("No JSON payload provided"))
    ELSE IF body.json[1].claude_api_key = None \/ body.json[1].claude_api_key[1] = ""
    THEN Some(BadRequest("claude_api_key is required for AI analysis"))
    ELSE IF body.json[1].property_id = None \/ body.json[1].property_id[1] = ""
    THEN Some(BadRequest("property_id and credentials are required"))
    ELSE None

\* lines 942-956: the same of analyze_with_ai
Rejection(body) ==
    IF body.json = None \/ body.json[1] = EmptyPayload
    THEN Some(BadRequest("No JSON payload provided"))
    ELSE IF body.json[1].claude_api_key = None \/ body.json[1].claude_api_key[1] = ""
    THEN Some(BadRequest("claude_api_key is required for AI analysis"))
    ELSE IF \/ body.json[1].property_id = None \/ body.json[1].property_id[1] = ""
            \/ body.json[1].credentials = None \/ body.json[1].credentials[1] = <<>>
    THEN Some(BadRequest("property_id and credentials are required"))
    ELSE None

\* lines 112-121
LegacySuccessEnvelope(property_id, data) ==
    [status |-> 200,
     body |-> [success |-> TRUE,
               property_id |-> property_id,
               date_range |-> [start |-> -7, end |-> 0],
               total_pages |-> Len(data),
               data |-> data]]

\* the reports the metrics source may return to analyze_ga4
LegacyReports == {<<>>, <<R_mobile, R_desktop>>, <<R_c, R_mobile>>}

Init ==
    /\ pc = "start"
    /\ route \in Routes
    /\ request_json \in JsonBodies
    /\ calls = <<>>
    /\ reports = <<>>
    /\ collected = None
    /\ insights = None
    /\ images = <<>>
    /\ response = None
    /\ AggIdle /\ OrderIdle /\ CmpIdle /\ EventIdle

\* lines 45-57, 942-956: the payload is read and its required fields are
\* checked
Validate ==
    /\ pc = "start"
    /\ IF IsExc(request_json)
       THEN /\ response' = Some(Failure(request_json, <<"analyze_with_ai", "get_json">>))
            /\ pc' = "responded"
            /\ urls' = urls
       ELSE LET rejection == IF route = "/analyze" THEN LegacyRejection(request_json)
                             ELSE Rejection(request_json)
            IN  /\ response' = rejection
                /\ pc' = IF rejection = None THEN "validated" ELSE "responded"
                /\ urls' = IF rejection = None /\ request_json.json[1].urls # None
                           THEN request_json.json[1].urls[1] ELSE urls
    /\ UNCHANGED <<rows, pages, aggregated, summary, orderVars, cmpVars, eventVars,
                   route, request_json, calls, reports, collected, insights, images>>

\* lines 59-63, 959-963: the credentials object and the metrics-source client
Authenticate ==
    /\ pc = "validated"
    /\ \E raised \in {None} \cup {Some(e) : e \in AuthErrors} :
          IF raised = None
          THEN /\ calls' = calls \o <<Call("from_service_account_info", 0, None),
                                      Call("BetaAnalyticsDataClient", 0, None)>>
               /\ pc' = IF route = "/analyze" THEN "reporting" ELSE "collecting"
               /\ response' = response
          ELSE /\ calls' = Append(calls, Call("from_service_account_info", 0, raised))
               /\ pc' = "responded"
               /\ response' = Some(Failure(raised[1], <<"analyze_with_ai",
                                                        "from_service_account_info">>))
    /\ UNCHANGED <<aggVars, orderVars, cmpVars, eventVars,
                   route, request_json, reports, collected, insights, images>>

\* lines 88-128: the one report of analyze_ga4, aggregated and answered, or
\* the exception the source raised
LegacyReport ==
    /\ pc = "reporting"
    /\ \/ \E report \in LegacyReports, fp \in BOOLEAN :
             LET data == analyze_ga4_data(report, urls, fp)
             IN  /\ calls' = Append(calls, Call("run_report", 1, None))
                 /\ reports' = Append(reports, report)
                 /\ aggregated' = data
                 /\ response' = Some(LegacySuccessEnvelope(
                                        request_json.json[1].property_id[1], data))
       \/ \E e \in SourceErrors :
             /\ calls' = Append(calls, Call("run_report", 1, Some(e)))
             /\ response' = Some(LegacyFailureEnvelope(e))
             /\ UNCHANGED <<reports, aggregated>>
    /\ pc' = "responded"
    /\ UNCHANGED <<rows, urls, pages, summary, orderVars, cmpVars, eventVars,
                   route, request_json, collected, insights, images>>

\* RunReport where run_ga4_report issues its query a second time
RunReportQueryingTwice ==
    /\ pc = "collecting"
    /\ LET n == Len(reports) + 1
       IN  \E report \in SourceReports(n), fp \in BOOLEAN :
              /\ reports' = Append(reports, report)
              /\ calls' = calls \o <<Call("run_report", n, None), Call("run_report", n, None)>>
              /\ IF n = Len(Queries)
                 THEN /\ collected' = Some(collect_all_data(Append(reports, report), urls, fp))
                      /\ pc' = "collected"
                 ELSE UNCHANGED <<collected, pc>>
    /\ UNCHANGED <<aggVars, orderVars, cmpVars, eventVars,
                   route, request_json, insights, images, response>>

\* lines 167-199, 409-467: the next query of collect_all_data returns a
\* report; after the last one collect_all_data returns
RunReport ==
    /\ pc = "collecting"
    /\ LET n == Len(reports) + 1
       IN  \E report \in SourceReports(n), fp \in BOOLEAN :
              /\ reports' = Append(reports, report)
              /\ calls' = Append(calls, Call("run_report", n, None))
              /\ IF n = Len(Queries)
                 THEN /\ collected' = Some(collect_all_data(Append(reports, report), urls, fp))
                      /\ pc' = "collected"
                 ELSE UNCHANGED <<collected, pc>>
    /\ UNCHANGED <<aggVars, orderVars, cmpVars, eventVars,
                   route, request_json, insights, images, response>>

\* RunReportRaises where the failed query is left to be issued again
RunReportRaisesAndRetries ==
    /\ pc = "collecting"
    /\ Cardinality({i \in 1..Len(calls) : calls[i].raised # None}) < 2
    /\ LET n == Len(reports) + 1
       IN  \E e \in SourceErrors :
              calls' = Append(calls, Call("run_report", n, Some(e)))
    /\ UNCHANGED <<pc, aggVars, orderVars, cmpVars, eventVars,
                   route, request_json, reports, collected, insights, images, response>>

\* lines 181, 966, 1000-1007: the next query raises; nothing catches it
\* before the except clause of analyze_with_ai
RunReportRaises ==
    /\ pc = "collecting"
    /\ LET n == Len(reports) + 1
       IN  \E e \in SourceErrors :
              /\ calls' = Append(calls, Call("run_report", n, Some(e)))
              /\ response' = Some(FailureEnvelope(e, <<"analyze_with_ai", "collect_all_data",
                                                      Queries[n].fetch, "run_ga4_report">>))
    /\ pc' = "responded"
    /\ UNCHANGED <<aggVars, orderVars, cmpVars, eventVars,
                   route, request_json, reports, collected, insights, images>>

\* lines 969-980: analyze_with_claude, and the sanitising of what it returns
AnalyzeWithClaude ==
    /\ pc = "collected"
    /\ \E answer \in AiAnswers, fp \in BOOLEAN :
          LET data_summary == build_data_summary(collected[1], fp)
              result       == analyze_with_claude(data_summary, answer)
          IN  /\ summary' = data_summary
              /\ calls' = calls \o <<Call("anthropic.Anthropic", 0, None)>>
                          \o (IF IsExc(data_summary) THEN <<>>
                              ELSE IF IsExc(answer)
                              THEN <<Call("messages.create", 0, Some(answer))>>
                              ELSE <<Call("messages.create", 0, None)>>)
              /\ IF IsExc(result)
                 THEN /\ response' = Some(FailureEnvelope(result, <<"analyze_with_ai",
                                                          "analyze_with_claude">>))
                      /\ pc' = "responded"
                      /\ insights' = insights
                 ELSE /\ insights' = Some(sanitise(result.returned))
                      /\ pc' = "analysed"
                      /\ response' = response
    /\ UNCHANGED <<rows, urls, pages, aggregated, orderVars, cmpVars, eventVars,
                   route, request_json, reports, collected, images>>

\* lines 983-998: generate_charts, and the response
GenerateCharts ==
    /\ pc = "analysed"
    /\ \E renders \in 0..Len(ChartAttempts(collected[1])) :
          LET made == generate_charts(collected[1], renders)
          IN  /\ images' = made
              /\ calls' = calls \o RenderCalls(collected[1], renders)
              /\ response' = Some(SuccessEnvelope(request_json.json[1].property_id[1],
                                                  collected[1], insights[1], made))
    /\ pc' = "responded"
    /\ UNCHANGED <<aggVars, orderVars, cmpVars, eventVars,
                   route, request_json, reports, collected, insights>>

Next ==
    \/ Validate
    \/ Authenticate
    \/ LegacyReport
    \/ RunReport
    \/ RunReportRaises
    \/ AnalyzeWithClaude
    \/ GenerateCharts

Spec == Init /\ [][Next]_vars

---------------------------------------------------------------------------
(* build_data_summary on its own: a combined result with many pages,       *)
(* serialized twice                                                        *)

MaxPages == 17

DigitChars == <<"0", "1", "2", "3", "4", "5", "6", "7", "8", "9">>

\* the pagePath of the i-th page: /p01, /p02, ...
PagePath(i) == <<"/", "p", DigitChars[(i \div 10) + 1], DigitChars[(i % 10) + 1]>>

\* how the sessions of the pages of a report run down the report
SessionPatterns == {"equal", "rising", "alternating", "in threes"}

PatternSessions(pattern, i) ==
    CASE pattern = "equal" -> 50
      [] pattern = "rising" -> 10 * i
      [] pattern = "alternating" -> IF i % 2 = 1 THEN 50 ELSE 70
      [] pattern = "in threes" -> 10 * (1 + (i % 3))

\* a page report of n rows, one page each
PageReport(pattern, n) ==
    [i \in 1..n |-> [R_mobile EXCEPT !.pagePath = PagePath(i),
                                     !.sessions = PatternSessions(pattern, i)]]

\* the combined results: the pages of the report as the 7-day and as the
\* 30-day page performance, the first page also in the previous 7 days
SummaryInputs ==
    {AllData([NoTotals EXCEPT !.last_7_days =
                 CompareTotals(get_site_totals(<<T_now>>), get_site_totals(<<T_before>>), TRUE)],
             [NoDetail EXCEPT
                 !.current = get_page_performance(PageReport(pattern, n), <<>>),
                 !.previous = get_page_performance(PageReport("equal", Min(n, 1)), <<>>),
                 !.page_performance_30d = get_page_performance(PageReport(pattern, n), <<>>),
                 !.events = get_event_data(<<Event("signup_click", 12, 10),
                                             Event("purchase", 12, 3)>>),
                 !.landing_pages = <<L_home>>,
                 !.geographic = <<G_sydney>>,
                 !.time_of_day = <<H_monday>>,
                 !.acquisition = <<A_search>>])
        : pattern \in SessionPatterns, n \in 0..MaxPages}

InitSummary ==
    /\ pc = "start"
    /\ collected \in {Some(all_data) : all_data \in SummaryInputs}
    /\ route = "" /\ request_json = <<>> /\ calls = <<>> /\ reports = <<>>
    /\ insights = <<>> /\ images = <<>> /\ response = <<>>
    /\ AggIdle /\ OrderIdle /\ CmpIdle /\ EventIdle

\* line 682: build_data_summary(all_data, periods)
Summarise ==
    /\ pc = "start"
    /\ \E fp \in BOOLEAN : summary' = build_data_summary(collected[1], fp)
    /\ pc' = "summarised"
    /\ UNCHANGED <<rows, urls, pages, aggregated, orderVars, cmpVars, eventVars, reqVars>>

\* the same call on the same all_data a second time
SummariseAgain ==
    /\ pc = "summarised"
    /\ \E fp \in BOOLEAN : summary2' = build_data_summary(collected[1], fp)
    /\ pc' = "summarised twice"
    /\ UNCHANGED <<aggVars, rows2, pages2, cmpVars, eventVars, reqVars>>

NextSummary == Summarise \/ SummariseAgain

SpecSummary == InitSummary /\ [][NextSummary]_vars

---------------------------------------------------------------------------
(* Properties of the aggregation, under SpecAgg *)

Aggregated == pc \in {"aggregated", "summarised"}

\* the rows of the report that belong to a page
RowsOf(path) == SelectSeq(rows, LAMBDA r : r.pagePath = path)

Total(rs, F(_)) == SumSeq([i \in 1..Len(rs) |-> F(rs[i])])

Sessions(r)        == r.sessions
WeightedBounce(r)  == r.bounceRate * r.sessions
WeightedEngage(r)  == r.engagementRate * r.sessions
WeightedSeconds(r) == r.averageSessionDuration * r.sessions
WeightedViews(r)   == r.screenPageViewsPerSession * r.sessions

\* v is num / den rounded to the nearest unit
IsRounding(v, num, den) == 2 * (v * den - num) <= den /\ 2 * (num - v * den) <= den

WeightedMetrics == {"bounceRate", "averageSessionDuration", "pagesPerSession",
                    "engagementRate"}

\* C1: every group whose summed sessions are 0 carries every weighted metric
\* with the value 0 (get_page_performance: all four; aggregate_basic: its
\* two), and serializing the groups raises nothing.
C1_ZeroWeightIsZero ==
    /\ Aggregated =>
          \A i \in 1..Len(pages) :
             pages[i].sessions = 0 =>
                \A m \in WeightedMetrics : m \in DOMAIN pages[i] /\ pages[i][m] = 0
    /\ pc = "legacy" =>
          \A i \in 1..Len(aggregated) :
             aggregated[i].sessions = 0 =>
                aggregated[i].bounceRate = 0 /\ aggregated[i].averageSessionDuration = 0
    /\ pc = "summarised" => ~IsExc(summary)

\* C4: a group with sessions has the summed sessions of its rows, every
\* weighted metric equal to sum(value * sessions) / sum(sessions) rounded once
\* (rates to 4 places, durations to 2), and the sessions of its rows per
\* device; the two /pricing rows give 150 sessions, 0.4667 and
\* {mobile: 100, desktop: 50}.
C4_WeightedAverage ==
    Aggregated =>
       /\ \A i \in 1..Len(pages) :
             LET g    == pages[i]
                 mine == RowsOf(g.pagePath)
                 t    == Total(mine, Sessions)
                 devs == {mine[j].deviceCategory : j \in 1..Len(mine)}
             IN  t > 0 =>
                   /\ g.sessions = t
                   /\ IsRounding(g.bounceRate, Total(mine, WeightedBounce), 10 * t)
                   /\ IsRounding(g.engagementRate, Total(mine, WeightedEngage), 10 * t)
                   /\ IsRounding(g.averageSessionDuration,
                                 Total(mine, WeightedSeconds), 10 * t)
                   /\ IsRounding(g.pagesPerSession, Total(mine, WeightedViews), 10 * t)
                   /\ DictKeys(g.devices) = devs
                   /\ \A d \in devs :
                         DictGet(g.devices, d, 0) =
                            Total(SelectSeq(mine, LAMBDA r : r.deviceCategory = d),
                                  Sessions)
       /\ rows = <<R_mobile, R_desktop>> =>
             /\ Len(pages) = 1
             /\ pages[1].sessions = 150
             /\ pages[1].bounceRate = 4667
             /\ pages[1].devices = <<[k |-> "mobile", v |-> 100],
                                     [k |-> "desktop", v |-> 50]>>

C4_Witness ==
    /\ pc = "aggregated"
    /\ rows = <<R_mobile, R_desktop>>
    /\ pages[1].bounceRate = 4667

SeqMin(rs, F(_)) == CHOOSE x \in {F(rs[i]) : i \in 1..Len(rs)} :
                       \A j \in 1..Len(rs) : x <= F(rs[j])
SeqMax(rs, F(_)) == CHOOSE x \in {F(rs[i]) : i \in 1..Len(rs)} :
                       \A j \in 1..Len(rs) : x >= F(rs[j])

Bounce(r)  == r.bounceRate
Engage(r)  == r.engagementRate
Seconds(r) == r.averageSessionDuration
Views(r)   == r.screenPageViewsPerSession

\* v, in units ten times coarser than the raw values, lies in the range of
\* the raw values of the rows, up to half a unit of rounding
InRange(v, rs, F(_)) == SeqMin(rs, F) - 5 <= 10 * v /\ 10 * v <= SeqMax(rs, F) + 5

\* C5 as stated: in every group, every weighted metric that has a value lies
\* within the range of its rows' raw values, whatever the rows' sessions.
C5_WithinRangeAlways ==
    /\ Aggregated =>
          \A i \in 1..Len(pages) :
             LET g == pages[i]
                 mine == RowsOf(g.pagePath)
             IN  /\ "bounceRate" \in DOMAIN g => InRange(g.bounceRate, mine, Bounce)
                 /\ "engagementRate" \in DOMAIN g =>
                       InRange(g.engagementRate, mine, Engage)
                 /\ "averageSessionDuration" \in DOMAIN g =>
                       InRange(g.averageSessionDuration, mine, Seconds)
                 /\ "pagesPerSession" \in DOMAIN g =>
                       InRange(g.pagesPerSession, mine, Views)
    /\ pc = "legacy" =>
          \A i \in 1..Len(aggregated) :
             LET g == aggregated[i]
                 mine == RowsOf(g.pagePath)
             IN  /\ InRange(g.bounceRate, mine, Bounce)
                 /\ InRange(g.averageSessionDuration, mine, Seconds)

\* C5 amended: in every group whose summed sessions are positive, every
\* weighted metric lies within the range of its rows' raw values, rows
\* without sessions included, up to the final rounding.
C5_WithinRangeWhenWeighted ==
    /\ Aggregated =>
          \A i \in 1..Len(pages) :
             LET g == pages[i]
                 mine == RowsOf(g.pagePath)
             IN  g.sessions > 0 =>
                   /\ InRange(g.bounceRate, mine, Bounce)
                   /\ InRange(g.engagementRate, mine, Engage)
                   /\ InRange(g.averageSessionDuration, mine, Seconds)
                   /\ InRange(g.pagesPerSession, mine, Views)
    /\ pc = "legacy" =>
          \A i \in 1..Len(aggregated) :
             LET g == aggregated[i]
                 mine == RowsOf(g.pagePath)
             IN  g.sessions > 0 =>
                   /\ InRange(g.bounceRate, mine, Bounce)
                   /\ InRange(g.averageSessionDuration, mine, Seconds)

\* a group with sessions that has a row without sessions
C5_Witness ==
    /\ pc = "aggregated"
    /\ \E i \in 1..Len(pages) :
          /\ pages[i].sessions > 0
          /\ \E j \in 1..Len(rows) :
                rows[j].pagePath = pages[i].pagePath /\ rows[j].sessions = 0
          /\ \E j \in 1..Len(rows) :
                rows[j].pagePath = pages[i].pagePath /\ rows[j].sessions > 0

\* the path component of each URL of UrlLists
PathOfUrl(u) ==
    IF u = U_a THEN P_a
    ELSE IF u = U_z THEN <<"/", "z">>
    ELSE IF u = U_cq THEN P_c
    ELSE <<"/">>

SuppliedPaths == {PathOfUrl(urls[i]) : i \in {j \in 1..Len(urls) : urls[j] # U_empty}}

MatchesUrl(g) == \E p \in SuppliedPaths : g.pagePath = p \/ startswith(g.pagePath, p)

\* what the URL filter leaves of the unfiltered result
Retained(unfiltered) ==
    IF SelectSeq(unfiltered, MatchesUrl) # <<>>
    THEN SelectSeq(unfiltered, MatchesUrl)
    ELSE unfiltered

\* C7: with urls supplied, the result is the unfiltered result restricted to
\* the groups whose pagePath equals or is prefixed by the path of one of the
\* urls, and the whole unfiltered result when no group matches.
C7_UrlFilter ==
    /\ Aggregated /\ urls # <<>> =>
          pages = Retained(AggregateByPage(rows))
    /\ pc = "legacy" /\ urls # <<>> =>
          \E fp \in BOOLEAN :
             aggregated =
                Retained(aggregate_basic([i \in 1..Len(rows) |-> LegacyRow(rows[i])], fp))

\* /a, /a/b and /c filtered by /a: /a and /a/b are kept
C7_Witness ==
    /\ pc = "aggregated"
    /\ urls = <<U_a>>
    /\ rows = <<R_zero1, R_tie1, R_c>>
    /\ [i \in 1..Len(pages) |-> pages[i].pagePath] = <<P_a, P_ab>>

---------------------------------------------------------------------------
(* Properties of the period comparison, under SpecCmp *)

\* the metrics of the current snapshot that are reported: those whose value
\* is a number and whose previous value, if there is one, is a number
ReportedMetrics ==
    {e.k : e \in {current_totals[i] : i \in 1..Len(current_totals)}} \
    ({current_totals[i].k : i \in {j \in 1..Len(current_totals) :
                                      ~IsNumber(current_totals[j].v)}}
     \cup {previous_totals[i].k : i \in {j \in 1..Len(previous_totals) :
                                      ~IsNumber(previous_totals[j].v)}})

\* the previous value of a reported metric: 0 when the snapshot lacks it
PreviousOf(metric) ==
    IF metric \in DictKeys(previous_totals)
    THEN DictGet(previous_totals, metric, Num(0)).n
    ELSE 0

\* C2: change_pct is round((current - previous) / previous * 100, 1) when
\* previous > 0 and None exactly when previous <= 0, a metric missing from
\* the previous snapshot included; 1200 against 1000 gives +20.0.
C2_ChangePct ==
    pc = "compared" =>
       /\ DictKeys(changes) = ReportedMetrics
       /\ \A metric \in ReportedMetrics :
             LET c   == DictGet(current_totals, metric, Num(0)).n
                 p   == PreviousOf(metric)
                 got == DictGet(changes, metric, <<>>)
             IN  /\ got.current = c
                 /\ got.previous = p
                 /\ p > 0 => /\ got.change_pct # None
                             /\ IsRounding(got.change_pct[1], (c - p) * 1000, p)
                 /\ p <= 0 => got.change_pct = None
       /\ (/\ DictGet(current_totals, "sessions", Num(0)) = Num(1200)
           /\ DictGet(previous_totals, "sessions", Num(0)) = Num(1000))
          => DictGet(changes, "sessions", <<>>).change_pct = Some(200)

\* 1200 sessions against 1000, and a bounce rate the previous snapshot lacks
C2_Witness ==
    /\ pc = "compared"
    /\ current_totals = <<[k |-> "sessions", v |-> Num(1200)],
                          [k |-> "bounceRate", v |-> Num(60000)]>>
    /\ previous_totals = <<[k |-> "sessions", v |-> Num(1000)]>>
    /\ DictGet(changes, "sessions", <<>>).change_pct = Some(200)
    /\ DictGet(changes, "bounceRate", <<>>).change_pct = None

\* the metric's value in a snapshot is there and is not a number
NonNumeric(snapshot, metric) ==
    \E i \in 1..Len(snapshot) : snapshot[i].k = metric /\ ~IsNumber(snapshot[i].v)

\* the metrics of the current snapshot, in its order, without those whose
\* current or previous value is not a number
ComparedMetrics ==
    LET kept == SelectSeq(current_totals,
                          LAMBDA e : /\ ~NonNumeric(current_totals, e.k)
                                     /\ ~NonNumeric(previous_totals, e.k))
    IN  [i \in 1..Len(kept) |-> kept[i].k]

\* C13: the metrics compared are the metrics of the current snapshot, in
\* its order; a metric of the previous snapshot alone is not reported; a
\* metric whose value is not a number is left out, and no reported value
\* stands for a value that was not a number
C13_ComparedMetrics ==
    pc = "compared" =>
       /\ [i \in 1..Len(changes) |-> changes[i].k] = ComparedMetrics
       /\ \A i \in 1..Len(changes) :
             /\ changes[i].k \in DictKeys(current_totals)
             /\ DictGet(current_totals, changes[i].k, <<>>) = Num(changes[i].v.current)
             /\ changes[i].k \in DictKeys(previous_totals) =>
                   DictGet(previous_totals, changes[i].k, <<>>) = Num(changes[i].v.previous)

\* of sessions, totalUsers and a bounce rate that is text, with a previous
\* snapshot that has totalUsers and bounceRate, sessions alone is compared
C13_Witness ==
    /\ pc = "compared"
    /\ current_totals = <<[k |-> "sessions", v |-> Num(1200)],
                          [k |-> "bounceRate", v |-> Str("(other)")]>>
    /\ previous_totals = <<[k |-> "totalUsers", v |-> Num(900)],
                           [k |-> "bounceRate", v |-> Num(60000)]>>
    /\ [i \in 1..Len(changes) |-> changes[i].k] = <<"sessions">>

---------------------------------------------------------------------------
(* Properties of the event filter, under SpecEvents *)

Denylist == {"session_start", "first_visit", "page_view", "user_engagement", "scroll"}

\* the indices of the source rows that are not on the denylist, and the
\* n-th of them
KeptIndices == {i \in 1..Len(source_events) : source_events[i].eventName \notin Denylist}
NthKept(n) == CHOOSE i \in KeptIndices : Cardinality({j \in KeptIndices : j < i}) = n - 1

\* C8: the events returned hold no row of the denylist and every other row
\* of the source, in the source's order; session_start (500) and
\* signup_click (12) leave signup_click.
C8_EventFilter ==
    pc = "filtered" =>
       /\ \A i \in 1..Len(events) : events[i].eventName \notin Denylist
       /\ Len(events) = Cardinality(KeptIndices)
       /\ \A n \in 1..Len(events) : events[n] = source_events[NthKept(n)]
       /\ source_events = <<Event("session_start", 500, 400), Event("signup_click", 12, 10)>>
          => events = <<Event("signup_click", 12, 10)>>

C8_Witness ==
    /\ pc = "filtered"
    /\ source_events = <<Event("session_start", 500, 400), Event("signup_click", 12, 10)>>
    /\ events = <<Event("signup_click", 12, 10)>>

---------------------------------------------------------------------------
(* Properties of the aggregation in two orders, under SpecOrder *)

Tally(d) == {<<d[i].k, d[i].v>> : i \in 1..Len(d)}

SameTotals(g, h) ==
    /\ g.pagePath = h.pagePath
    /\ g.sessions = h.sessions
    /\ g.totalUsers = h.totalUsers
    /\ g.newUsers = h.newUsers
    /\ g.engagedSessions = h.engagedSessions
    /\ g.eventCount = h.eventCount
    /\ Tally(g.devices) = Tally(h.devices)
    /\ Tally(g.sources) = Tally(h.sources)
    /\ Tally(g.channels) = Tally(h.channels)

Distance(a, b) == IF a >= b THEN a - b ELSE b - a

\* the weighted metrics of g and h are at most tol units of their last
\* rounded place apart
WeightedWithin(g, h, tol) ==
    /\ DOMAIN g = DOMAIN h
    /\ \A m \in WeightedMetrics \cap DOMAIN g : Distance(g[m], h[m]) <= tol

\* the report aggregated in two batches: its first k rows, then the rest
Batched(k) ==
    LET ps == FoldRows(FoldRows(<<>>, SubSeq(rows, 1, k)),
                       SubSeq(rows, k + 1, Len(rows)))
    IN  [i \in 1..Len(ps) |-> Finalize(ps[i].v)]

BatchesAgree ==
    \A k \in 0..Len(rows) : Batched(k) = pages

OrdersAgree(tol) ==
    /\ Len(pages) = Len(pages2)
    /\ \A i \in 1..Len(pages) : \E j \in 1..Len(pages2) :
          SameTotals(pages[i], pages2[j]) /\ WeightedWithin(pages[i], pages2[j], tol)

\* C6 as stated: the same rows in any order, or in two batches, give every
\* group identical summable totals, identical breakdown tallies and
\* identical weighted metrics
C6_OrderIndependent ==
    pc = "reaggregated" => BatchesAgree /\ OrdersAgree(0)

\* C6 amended: the same rows in any order, or in two batches, give every
\* group identical summable totals and identical breakdown tallies; two
\* batches give identical weighted metrics, and two orders give weighted
\* metrics at most one unit of the last rounded place apart
C6_OrderIndependentWithinRounding ==
    pc = "reaggregated" => BatchesAgree /\ OrdersAgree(1)

\* three rows of one page, reordered, whose weighted bounce rate is a
\* decimal tie: the two orders give neighbouring values
C6_Witness ==
    /\ pc = "reaggregated"
    /\ Len(rows) = 3
    /\ rows2 # rows
    /\ Len(pages) = 1 /\ Len(pages2) = 1
    /\ pages[1].sessions = 350
    /\ Distance(pages[1].bounceRate, pages2[1].bounceRate) = 1

---------------------------------------------------------------------------
(* Properties of the /analyze-with-ai request, under Spec *)

\* the pages of the 7-day section of the summary, and the previous group of
\* a path
ListedPages ==
    LET current_pages == collected[1].page_performance.current
    IN  Take(SortDesc(current_pages, SessionsOf(current_pages)), TopPages)

PreviousGroups(path) ==
    LET previous_pages == collected[1].page_performance.previous
    IN  {previous_pages[j] : j \in {j \in 1..Len(previous_pages) :
                                       previous_pages[j].pagePath = path}}

SummaryLines == {summary.text[n] : n \in 1..Len(summary.text)}

\* C3: in the text of build_data_summary every percentage change whose
\* previous value is not available (previous <= 0) is the token N/A: on the
\* lines of the site totals, and on the "vs previous 7 days" line of a page
\* whose previous group has no sessions
C3_UnavailableChangeIsNA ==
    insights # None =>
       /\ \A i \in 1..Len(ListedPages) :
             \A prev \in PreviousGroups(ListedPages[i].pagePath) :
                prev.sessions <= 0 =>
                   /\ ~IsExc(summary)
                   /\ \E line \in SummaryLines :
                         /\ line.t = "vs previous 7 days"
                         /\ line.path = ListedPages[i].pagePath
                         /\ line.change.fmt = "N/A"
       /\ ~IsExc(summary) =>
             \A period \in {"last_7_days", "last_30_days", "year_over_year"} :
                LET totals == collected[1][period].totals
                IN  \A m \in 1..Len(totals) :
                       totals[m].v.previous <= 0 =>
                          \E line \in SummaryLines :
                             /\ line.t = "total count" \/ line.t = "total rate"
                                \/ line.t = "total seconds"
                             /\ line.metric = totals[m].k
                             /\ line.change.fmt = "N/A"

\* the queries of the metrics source that raised
FailedQueries == {i \in 1..Len(calls) : calls[i].call = "run_report" /\ calls[i].raised # None}

\* C9: when a query of the metrics source raises during collect_all_data
\* there is no combined result (nor insights nor charts made of a part of
\* it), and the response is the failure envelope with status 500, the
\* exception's message and the exception's type
C9_SourceFailureAborts ==
    \A i \in FailedQueries :
        /\ collected = None
        /\ insights = None
        /\ images = <<>>
        /\ pc = "responded"
        /\ response # None
        /\ response[1].status = 500
        /\ response[1].body.success = FALSE
        /\ response[1].body.error = calls[i].raised[1].message
        /\ response[1].body.error_type = calls[i].raised[1].exc

\* the last query of the orchestration raised, after fourteen reports
C9_Witness ==
    /\ \E i \in FailedQueries : calls[i].query = Len(Queries)
    /\ Len(reports) = Len(Queries) - 1
    /\ response # None
    /\ response[1].status = 500

\* the exceptions raised inside analyze_with_claude
InsightFailures ==
    (IF IsExc(summary) THEN {summary} ELSE {})
    \cup {calls[i].raised[1] : i \in {i \in 1..Len(calls) :
                                        calls[i].call = "messages.create"
                                        /\ calls[i].raised # None}}

\* C10: an exception raised inside analyze_with_claude does not fail the
\* request: ai_insights is the error placeholder with the exception's
\* message, and the response is the success envelope with the page
\* aggregate, its length and the charts
C10_InsightFailureDegrades ==
    \A e \in InsightFailures :
        /\ pc \in {"analysed", "responded"}
        /\ insights = Some(sanitise(<<"<p style='color: red;'>Error generating AI insights:", " ">>
                                    \o str(e) \o <<"</p>">>))
        /\ pc = "responded" =>
              /\ response # None
              /\ response[1].status = 200
              /\ response[1].body.success = TRUE
              /\ response[1].body.ga4_data = collected[1].page_performance.current
              /\ response[1].body.total_pages = Len(collected[1].page_performance.current)
              /\ response[1].body.charts = images
              /\ response[1].body.ai_insights = insights[1]

\* the insight generator's call raised, and the response has pages and charts
C10_Witness ==
    /\ pc = "responded"
    /\ \E i \in 1..Len(calls) : calls[i].call = "messages.create" /\ calls[i].raised # None
    /\ response # None
    /\ response[1].status = 200
    /\ response[1].body.total_pages > 0
    /\ Len(response[1].body.charts) = 5

\* the request has a JSON body that lacks a required field
LacksRequiredField ==
    /\ ~IsExc(request_json)
    /\ \/ request_json.json = None
       \/ request_json.json[1] = EmptyPayload
       \/ request_json.json[1].property_id \in {None, Some("")}
       \/ request_json.json[1].credentials \in {None, Some(<<>>)}

\* C11: a request to either route that lacks property_id or credentials, or
\* whose payload is empty, is answered with status 400 and no call to a
\* collaborator is ever made for it: no credentials object, no client, no
\* query, no insight generator
C11_RejectedBeforeAnyCall ==
    LacksRequiredField =>
        /\ calls = <<>>
        /\ reports = <<>>
        /\ pc \in {"start", "responded"}
        /\ pc = "responded" => response # None /\ response[1].status = 400

\* /analyze-with-ai answered a payload that has everything but credentials
C11_Witness ==
    /\ route = "/analyze-with-ai"
    /\ pc = "responded"
    /\ ~IsExc(request_json)
    /\ request_json.json # None
    /\ request_json.json[1].claude_api_key = Some("sk-ant-1")
    /\ request_json.json[1].property_id = Some("123456789")
    /\ request_json.json[1].credentials = None
    /\ response[1].status = 400

\* the request to /analyze-with-ai has a JSON body without claude_api_key
LacksApiKey ==
    /\ route = "/analyze-with-ai"
    /\ ~IsExc(request_json)
    /\ request_json.json # None
    /\ request_json.json[1].claude_api_key \in {None, Some("")}

\* the statuses of the failure responses alone
FailureStatuses ==
    (response # None /\ response[1].status # 200) =>
        response[1].status = IF LacksRequiredField \/ LacksApiKey THEN 400 ELSE 500

\* C12: every failure response of either route has the envelope
\* {success: false, error, error_type}; its status is 400 when a required
\* field is missing and 500 otherwise
C12_FailureEnvelope ==
    (response # None /\ response[1].status # 200) =>
        /\ {"success", "error", "error_type"} \subseteq DOMAIN response[1].body
        /\ response[1].body.success = FALSE
        /\ response[1].status = IF LacksRequiredField \/ LacksApiKey THEN 400 ELSE 500

---------------------------------------------------------------------------
(* Properties of the summary, under SpecSummary *)

Summarised == pc \in {"summarised", "summarised twice"}

\* the pages the 7-day and the 30-day section list, in the order of their
\* lines, each with the sessions printed for it
Listed7d ==
    LET ls == SelectSeq(summary.text, LAMBDA l : l.t = "Sessions")
    IN  [i \in 1..Len(ls) |-> [pagePath |-> ls[i].path, sessions |-> ls[i].v]]

Listed30d ==
    LET ls == SelectSeq(summary.text, LAMBDA l : l.t = "Sessions | Users")
    IN  [i \in 1..Len(ls) |-> [pagePath |-> ls[i].path, sessions |-> ls[i].sessions]]

\* where the group of a path is in the input list
InputIndex(input, path) == CHOOSE i \in 1..Len(input) : input[i].pagePath = path

\* a comes before b: more sessions, or as many and earlier in the input
Before(input, a, b) ==
    \/ input[a].sessions > input[b].sessions
    \/ input[a].sessions = input[b].sessions /\ a < b

\* listed is the first n groups of input by sessions descending, groups of
\* equal sessions in the order of input
TopBySessions(listed, input, n) ==
    LET at(k) == InputIndex(input, listed[k].pagePath)
    IN  /\ Len(listed) = Min(n, Len(input))
        /\ \A k \in 1..Len(listed) :
              /\ \E i \in 1..Len(input) : input[i].pagePath = listed[k].pagePath
              /\ input[at(k)].sessions = listed[k].sessions
        /\ \A k, m \in 1..Len(listed) : k < m => Before(input, at(k), at(m))
        /\ \A i \in 1..Len(input) :
              (\A k \in 1..Len(listed) : at(k) # i) =>
                 \A k \in 1..Len(listed) : Before(input, at(k), i)

\* C14: the 7-day section lists the top 15 groups of page_performance.current
\* by sessions descending, the 30-day section the top 10 of
\* page_performance_30d, and groups of equal sessions keep the order they
\* have in the input list
C14_TopBySessions ==
    (Summarised /\ ~IsExc(summary)) =>
        /\ TopBySessions(Listed7d, collected[1].page_performance.current, 15)
        /\ TopBySessions(Listed30d, collected[1].page_performance_30d, 10)

\* seventeen pages of 50 and 70 sessions in turn: the eight of 70 come
\* first, then the first seven of 50
C14_Witness ==
    /\ pc = "summarised"
    /\ ~IsExc(summary)
    /\ Len(collected[1].page_performance.current) = 17
    /\ Len(Listed7d) = 15
    /\ Len(Listed30d) = 10
    /\ Listed7d[1] = [pagePath |-> PagePath(2), sessions |-> 70]
    /\ Listed7d[9] = [pagePath |-> PagePath(1), sessions |-> 50]
    /\ Listed7d[15] = [pagePath |-> PagePath(13), sessions |-> 50]

---------------------------------------------------------------------------
(* Properties of the orchestration, under Spec *)

\* the queries issued to the metrics source, in order: the indices of calls
QueryCalls == SelectSeq(calls, LAMBDA c : c.call = "run_report")

FixedKeys ==
    {"last_7_days", "last_30_days", "year_over_year", "page_performance", "events",
     "landing_pages", "exit_pages", "geographic", "time_of_day", "acquisition",
     "page_performance_30d"}

\* C16: there is a combined result only when every sub-fetch of
\* collect_all_data has returned its report, and the combined result has the
\* fixed keys and no other, page_performance the keys current and previous
C16_AssembledAfterAllFetches ==
    collected # None =>
        /\ Len(reports) = Len(Queries)
        /\ \A n \in 1..Len(Queries) :
              \E i \in 1..Len(calls) :
                 calls[i] = [call |-> "run_report", query |-> n, raised |-> None]
        /\ FailedQueries = {}
        /\ DOMAIN collected[1] = FixedKeys
        /\ DOMAIN collected[1].page_performance = {"current", "previous"}

\* collect_all_data has just returned, with pages of both 7-day ranges
C16_Witness ==
    /\ pc = "collected"
    /\ collected # None
    /\ Len(reports) = Len(Queries)
    /\ collected[1].page_performance.current # <<>>
    /\ collected[1].page_performance.previous # <<>>
    /\ collected[1].exit_pages # <<>>

\* C18 as stated: a full orchestration issues at most 13 queries
C18_AtMostThirteenQueries ==
    route = "/analyze-with-ai" => Len(QueryCalls) <= 13

\* C18: a full orchestration issues exactly fifteen queries, one for each
\* sub-fetch of collect_all_data in its order, and no run_ga4_report call
\* issues a second one
C18_FifteenQueries ==
    /\ Len(Queries) = 15
    /\ route = "/analyze-with-ai" =>
          /\ \A i \in 1..Len(QueryCalls) : QueryCalls[i].query = i
          /\ Len(QueryCalls) <= Len(Queries)
          /\ collected # None => Len(QueryCalls) = Len(Queries)

\* the orchestration is through: the fifteenth query has returned
C18_Witness ==
    /\ route = "/analyze-with-ai"
    /\ collected # None
    /\ Len(QueryCalls) = 15
    /\ QueryCalls[15] = [call |-> "run_report", query |-> 15, raised |-> None]

\* C19: once a query of the metrics source has failed, no query is issued
\* any more: neither the failed one again nor any that follows it
C19_NoQueryAfterFailure ==
    [][FailedQueries # {} =>
          SelectSeq(calls', LAMBDA c : c.call = "run_report") = QueryCalls]_vars

\* the third query of the orchestration failed, and the request was answered
C19_Witness ==
    /\ route = "/analyze-with-ai"
    /\ pc = "responded"
    /\ Len(QueryCalls) = 3
    /\ QueryCalls[3].raised # None
    /\ QueryCalls[1].raised = None /\ QueryCalls[2].raised = None

---------------------------------------------------------------------------
(* Further properties of the aggregation, under SpecAgg *)

TotalUsers(r) == r.totalUsers
NewUsers(r)   == r.newUsers

\* C17: every group has returningUsers, the sum of totalUsers of its rows
\* less the sum of their newUsers, and the returning figure of the summary
\* is the users less the new users printed next to it
C17_ReturningUsers ==
    /\ Aggregated =>
          \A i \in 1..Len(pages) :
             /\ "returningUsers" \in DOMAIN pages[i]
             /\ pages[i].returningUsers =
                   Total(RowsOf(pages[i].pagePath), TotalUsers)
                   - Total(RowsOf(pages[i].pagePath), NewUsers)
    /\ (pc = "summarised" /\ ~IsExc(summary)) =>
          \A n \in 1..Len(summary.text) :
             summary.text[n].t = "Users" =>
                summary.text[n].returning = summary.text[n].users - summary.text[n].new

WorkingFields ==
    {"_weighted_bounce", "_weighted_duration", "_weighted_pages_per_session",
     "_weighted_engagement_rate"}

\* the values of a tally, summed
TallySum(d) == SumSeq([i \in 1..Len(d) |-> d[i].v])

\* C20: in every group, with or without sessions, the devices, the sources
\* and the channels each sum to the group's sessions, and no working field
\* (a key that starts with "_") is left
C20_TalliesAndCleanUp ==
    Aggregated =>
       \A i \in 1..Len(pages) :
          /\ TallySum(pages[i].devices) = pages[i].sessions
          /\ TallySum(pages[i].sources) = pages[i].sessions
          /\ TallySum(pages[i].channels) = pages[i].sessions
          /\ DOMAIN pages[i] \cap WorkingFields = {}
          /\ "_rows" \notin DOMAIN pages[i]

\* a page without sessions next to a page of two devices
C20_Witness ==
    /\ pc = "aggregated"
    /\ rows = <<R_zero1, R_mobile, R_desktop>>
    /\ Len(pages) = 2
    /\ pages[1].sessions = 0
    /\ pages[2].sessions = 150
    /\ Len(pages[2].devices) = 2

---------------------------------------------------------------------------
(* The URL filter within one orchestration, under Spec *)

\* the page reports of the orchestration: the query of Queries, and the
\* groups collect_all_data made of its report
PageFetches ==
    <<[query |-> 7, groups |-> collected[1].page_performance.current],
      [query |-> 8, groups |-> collected[1].page_performance.previous],
      [query |-> 15, groups |-> collected[1].page_performance_30d]>>

\* the fetch was filtered: a row of its report matches a supplied path
Filtered(fetch) == \E i \in 1..Len(reports[fetch.query]) : MatchesUrl(reports[fetch.query][i])

\* C21: with urls supplied, each of the three page fetches decides on its
\* own: where a row of the fetch's report matches a supplied path the result
\* is made of the matching rows alone, every group matching; where none
\* matches the result is made of all the rows of the report, whatever the
\* other fetches of the request did
C21_FilterPerFetch ==
    (collected # None /\ SuppliedPaths # {}) =>
        \A k \in 1..Len(PageFetches) :
           LET fetch  == PageFetches[k]
               report == reports[fetch.query]
           IN  IF Filtered(fetch)
               THEN /\ \A i \in 1..Len(fetch.groups) : MatchesUrl(fetch.groups[i])
                    /\ fetch.groups = AggregateByPage(SelectSeq(report, MatchesUrl))
               ELSE fetch.groups = AggregateByPage(report)

\* urls of /a: the current 7 days are filtered down to /a/b, the previous
\* 7 days and the 30 days keep their page /p, which does not match
C21_Witness ==
    /\ collected # None
    /\ urls = <<U_a>>
    /\ Filtered(PageFetches[1])
    /\ \E i \in 1..Len(reports[7]) : ~MatchesUrl(reports[7][i])
    /\ [i \in 1..Len(PageFetches[1].groups) |-> PageFetches[1].groups[i].pagePath] = <<P_ab>>
    /\ ~Filtered(PageFetches[2])
    /\ PageFetches[2].groups # <<>>
    /\ \A i \in 1..Len(PageFetches[2].groups) : ~MatchesUrl(PageFetches[2].groups[i])
    /\ ~Filtered(PageFetches[3])
    /\ Len(PageFetches[3].groups) = 2
====
